---- MODULE Spec2Model ----
(***************************************************************************)
(* LCOE & PPA calculator: the calculation engine of calculator.js          *)
(* (calculateProject, calculateSupplier, calculatePayback,                 *)
(* calculateFinancials, calculateROI) over the configuration of config.js. *)
(*                                                                         *)
(* Numbers.  A JavaScript number is modelled as an exact rational <<n, d>> *)
(* in lowest terms with d > 0; <<0, 0>> stands for every value that        *)
(* Number.isFinite rejects (undefined, NaN, an infinity, a string).  The   *)
(* arithmetic of the engine is therefore exact: rounding of IEEE doubles   *)
(* is not modelled.                                                        *)
(*                                                                         *)
(* res.irr and res.mirr (calculator.js lines 193 and 196) are left out of  *)
(* the result records: both are functions of res.cashflows and global      *)
(* alone, which the records carry, and one hundred Newton-Raphson steps or *)
(* an n-th root have no exact rational value within TLC's integers.        *)
(* calculateIRR and calculateMIRR are followed on their own, on series of  *)
(* their own (SpecIRR, SpecMIRR).                                          *)
(***************************************************************************)
EXTENDS Integers, Sequences, FiniteSets, TLC

VARIABLES
    global,       \* the global-assumptions argument (SolarConfig.global shape)
    supplier,     \* the supplier argument (name, enabled, projects)
    ENV_FACTORS,  \* window.ENV_FACTORS, read by calculateFinancials
    cashflows,    \* the series handed to calculatePayback when called alone
    ret,          \* what the call in hand returned: [op, idx, value]
    thisSuppliers,\* SolarCalculator: this.suppliers
    thisResults,  \* SolarCalculator: this.results
    last,         \* the handler that ran last, and what it started from
    clip,         \* copyChartToClipboard: the browser and the call in hand
    cards         \* the overview stats shown in the supplier cards

\* the state of the application (script.js) besides this.global
appVars == <<thisSuppliers, thisResults, last, clip, cards>>

vars == <<global, supplier, ENV_FACTORS, cashflows, ret, appVars>>

----------------------------------------------------------------------------
(* Exact rational arithmetic standing for JavaScript's number operators.   *)

RECURSIVE GCD(_, _)
GCD(a, b) == IF b = 0 THEN a ELSE GCD(b, a % b)

AbsInt(a) == IF a < 0 THEN -a ELSE a

Norm(n, d) ==
    LET g == GCD(AbsInt(n), AbsInt(d))
        s == IF d < 0 THEN -1 ELSE 1
    IN  <<(s * n) \div g, (s * d) \div g>>

R(n) == <<n, 1>>
Zero == <<0, 1>>
One == <<1, 1>>
NaN == <<0, 0>>

isFinite(x) == x[2] # 0

Neg(x) == <<-x[1], x[2]>>
Add(x, y) == Norm(x[1] * y[2] + y[1] * x[2], x[2] * y[2])
Sub(x, y) == Add(x, Neg(y))
\* cross-reduced before multiplying, so that no intermediate product is
\* larger than the result's own numerator and denominator
Mul(x, y) ==
    LET a == Norm(x[1], y[2])
        b == Norm(y[1], x[2])
    IN  <<a[1] * b[1], a[2] * b[2]>>
Div(x, y) == Mul(x, Norm(y[2], y[1]))
Abs(x) == <<AbsInt(x[1]), x[2]>>
Lt(x, y) == x[1] * y[2] < y[1] * x[2]
Le(x, y) == x[1] * y[2] <= y[1] * x[2]
Ge(x, y) == Le(y, x)
Gt(x, y) == Lt(y, x)

\* Math.pow(x, k) for an integer k >= 0
RECURSIVE Pow(_, _)
Pow(x, k) == IF k = 0 THEN One ELSE Mul(x, Pow(x, k - 1))

\* a / 100, as in global.wacc / 100
Percent(x) == Div(x, R(100))

\* the sum of a sequence of numbers, added left to right from start
RECURSIVE SumFrom(_, _)
SumFrom(start, s) ==
    IF s = <<>> THEN start ELSE SumFrom(Add(start, Head(s)), Tail(s))

\* JavaScript's (x || y) for a number x: y when x is 0, NaN or undefined
OrElse(x, y) == IF ~isFinite(x) \/ x[1] = 0 THEN y ELSE x

Null == [null |-> TRUE]

----------------------------------------------------------------------------
(* Bounds of the model.                                                    *)

MaxPeriod == 2
MaxProjects == 2
MaxSeries == 4
MaxGuess == 40
MaxOpex == 1

----------------------------------------------------------------------------
(* calculator.js: the engine.                                              *)

\* one opex item's value in a year with the given energy, before inflation
\* (the if / else-if chain of the forEach body)
opexItemVal(item, project, annualEnergy) ==
    IF item.type = "per_kwp"
        THEN Mul(Mul(item.unit, project.kwp), OrElse(item.freq, One))
    ELSE IF item.type = "flat" THEN item.unit
    ELSE IF item.type = "per_kwh" THEN Mul(item.unit, annualEnergy)
    ELSE Zero

\* annualOpex after project.opex.forEach: every item's value times
\* Math.pow(1 + inf, t - 1), added in order to 0
RECURSIVE annualOpexOf(_, _, _, _, _)
annualOpexOf(items, project, annualEnergy, inf, t) ==
    IF items = <<>> THEN Zero
    ELSE Add(annualOpexOf(SubSeq(items, 1, Len(items) - 1), project,
                          annualEnergy, inf, t),
             Mul(opexItemVal(items[Len(items)], project, annualEnergy),
                 Pow(Add(One, inf), t - 1)))

\* the utility tariff calculateProject works with
effectiveTariff(project) ==
    IF isFinite(project.utilityTariff) THEN project.utilityTariff
    ELSE <<9, 2>>

\* e1 * Math.pow(1 - deg, t - 1)
annualEnergyOf(project, g, t) ==
    Mul(Mul(Mul(project.kwp, project.prodHour), R(365)),
        Pow(Sub(One, Percent(g.degradation)), t - 1))

\* currentTariffOf with the PPA discount left out of sellY1
currentTariffOf_NoDiscount(project, g, t) ==
    Mul(effectiveTariff(project),
        Pow(Add(One, Percent(g.tariffEscalation)), t - 1))

\* sellY1 * Math.pow(1 + esc, t - 1)
currentTariffOf(project, g, t) ==
    Mul(Mul(effectiveTariff(project), Sub(One, Percent(project.ppaDiscount))),
        Pow(Add(One, Percent(g.tariffEscalation)), t - 1))

\* df = 1 / Math.pow(1 + r, t)
discountFactor(g, t) == Div(One, Pow(Add(One, Percent(g.wacc)), t))

\* yearRecord with the operands of netCF swapped
yearRecord_SwappedNet(t, df, annualEnergy, annualOpex, currentTariff) ==
    LET annualRevenue == Mul(annualEnergy, currentTariff)
        netCF == Sub(annualOpex, annualRevenue)
    IN  [year |-> t, energy |-> annualEnergy, tariff |-> currentTariff,
         revenue |-> annualRevenue, opex |-> annualOpex, netCF |-> netCF,
         pvNetCF |-> Mul(netCF, df), df |-> df]

\* yearRecord with pvNetCF left undiscounted
yearRecord_PvUndiscounted(t, df, annualEnergy, annualOpex, currentTariff) ==
    LET annualRevenue == Mul(annualEnergy, currentTariff)
        netCF == Sub(annualRevenue, annualOpex)
    IN  [year |-> t, energy |-> annualEnergy, tariff |-> currentTariff,
         revenue |-> annualRevenue, opex |-> annualOpex, netCF |-> netCF,
         pvNetCF |-> netCF, df |-> df]

\* the record of year t from the year's energy, opex and tariff
yearRecord(t, df, annualEnergy, annualOpex, currentTariff) ==
    LET annualRevenue == Mul(annualEnergy, currentTariff)
        netCF == Sub(annualRevenue, annualOpex)
    IN  [year |-> t, energy |-> annualEnergy, tariff |-> currentTariff,
         revenue |-> annualRevenue, opex |-> annualOpex, netCF |-> netCF,
         pvNetCF |-> Mul(netCF, df), df |-> df]

\* the body of the year loop for year t: the record pushed on yearlyData,
\* with the discount factor df of that year
projectYear(project, g, t) ==
    yearRecord(t, discountFactor(g, t), annualEnergyOf(project, g, t),
               annualOpexOf(project.opex, project,
                            annualEnergyOf(project, g, t),
                            Percent(g.opexInflation), t),
               currentTariffOf(project, g, t))

\* the sequence <<f(s[1]), ..., f(s[n])>>
MapSeq(s, f(_)) == [i \in 1..Len(s) |-> f(s[i])]

\* f(x) with x worked out once, as a const of the code is
Bind(x, f(_)) == CHOOSE y \in {f(v) : v \in {x}} : TRUE

\* cumulative after year i: start plus flows[1..i], added in order
RunningSum(start, flows, i) == SumFrom(start, SubSeq(flows, 1, i))

\* paybackFrom returning period, not period + 1, when the loop runs out
RECURSIVE paybackFrom_SentinelPeriod(_, _, _, _)
paybackFrom_SentinelPeriod(cfs, period, year, cumulative) ==
    IF year >= Len(cfs) THEN R(period)
    ELSE
        LET annual == cfs[year + 1]
            prev == cumulative
            next == Add(cumulative, annual)
        IN  IF Ge(next, Zero)
            THEN IF Le(annual, Zero) THEN R(year)
                 ELSE Add(R(year - 1), Div(Abs(prev), annual))
            ELSE paybackFrom_SentinelPeriod(cfs, period, year + 1, next)

\* paybackFrom interpolating from year, not from year - 1
RECURSIVE paybackFrom_FromYear(_, _, _, _)
paybackFrom_FromYear(cfs, period, year, cumulative) ==
    IF year >= Len(cfs) THEN R(period + 1)
    ELSE
        LET annual == cfs[year + 1]
            prev == cumulative
            next == Add(cumulative, annual)
        IN  IF Ge(next, Zero)
            THEN IF Le(annual, Zero) THEN R(year)
                 ELSE Add(R(year), Div(Abs(prev), annual))
            ELSE paybackFrom_FromYear(cfs, period, year + 1, next)

\* paybackFrom testing cumulative > 0, not cumulative >= 0
RECURSIVE paybackFrom_StrictlyPositive(_, _, _, _)
paybackFrom_StrictlyPositive(cfs, period, year, cumulative) ==
    IF year >= Len(cfs) THEN R(period + 1)
    ELSE
        LET annual == cfs[year + 1]
            prev == cumulative
            next == Add(cumulative, annual)
        IN  IF Gt(next, Zero)
            THEN IF Le(annual, Zero) THEN R(year)
                 ELSE Add(R(year - 1), Div(Abs(prev), annual))
            ELSE paybackFrom_StrictlyPositive(cfs, period, year + 1, next)

\* the for loop of calculatePayback from the given year on, cumulative
\* being the running sum before that year
RECURSIVE paybackFrom(_, _, _, _)
paybackFrom(cfs, period, year, cumulative) ==
    IF year >= Len(cfs) THEN R(period + 1)
    ELSE
        LET annual == cfs[year + 1]
            prev == cumulative
            next == Add(cumulative, annual)
        IN  IF Ge(next, Zero)
            THEN IF Le(annual, Zero) THEN R(year)
                 ELSE Add(R(year - 1), Div(Abs(prev), annual))
            ELSE paybackFrom(cfs, period, year + 1, next)

calculatePayback(cfs, period) ==
    IF Len(cfs) < 2 THEN R(period + 1)
    ELSE paybackFrom(cfs, period, 1, cfs[1])

\* calculateROI with the capex left out of netProfit
calculateROI_CapexNotDeducted(totalRevenue, totalOpex, totalCapex) ==
    LET netProfit == Sub(totalRevenue, totalOpex)
    IN  IF totalCapex = Zero THEN Zero
        ELSE Mul(Div(netProfit, totalCapex), R(100))

calculateROI(totalRevenue, totalOpex, totalCapex) ==
    LET netProfit == Sub(Sub(totalRevenue, totalOpex), totalCapex)
    IN  IF totalCapex = Zero THEN Zero
        ELSE Mul(Div(netProfit, totalCapex), R(100))

\* lcoeFields carrying the capex over as lcoeCapex when there is no energy
lcoeFields_CapexWithoutEnergy(res) ==
    IF Gt(res.pvEnergy, Zero)
    THEN LET lcoeCapex == Div(res.totalCapex, res.pvEnergy)
             lcoeOpex == Div(res.pvOpex, res.pvEnergy)
             avgTariff == Div(res.pvRevenue, res.pvEnergy)
         IN  [lcoeCapex |-> lcoeCapex, lcoeOpex |-> lcoeOpex,
              lcoe |-> Add(lcoeCapex, lcoeOpex), avgTariff |-> avgTariff,
              profitMargin |-> Sub(avgTariff, Add(lcoeCapex, lcoeOpex))]
    ELSE [lcoeCapex |-> res.totalCapex, lcoeOpex |-> Zero,
          lcoe |-> res.totalCapex, avgTariff |-> Zero,
          profitMargin |-> Neg(res.totalCapex)]

\* the LCOE block of calculateFinancials (the if / else on res.pvEnergy)
lcoeFields(res) ==
    IF Gt(res.pvEnergy, Zero)
    THEN LET lcoeCapex == Div(res.totalCapex, res.pvEnergy)
             lcoeOpex == Div(res.pvOpex, res.pvEnergy)
             avgTariff == Div(res.pvRevenue, res.pvEnergy)
         IN  [lcoeCapex |-> lcoeCapex, lcoeOpex |-> lcoeOpex,
              lcoe |-> Add(lcoeCapex, lcoeOpex), avgTariff |-> avgTariff,
              profitMargin |-> Sub(avgTariff, Add(lcoeCapex, lcoeOpex))]
    ELSE [lcoeCapex |-> Zero, lcoeOpex |-> Zero, lcoe |-> Zero,
          avgTariff |-> Zero, profitMargin |-> Zero]

\* the environmental block: only when there is a year-1 record
envFields(res) ==
    IF Len(res.yearlyData) > 0
    THEN LET co2 == Mul(res.yearlyData[1].energy, ENV_FACTORS.CO2_FACTOR)
         IN  [hasEnv |-> TRUE, co2Year |-> co2,
              treesYear |-> Div(co2, ENV_FACTORS.TREE_FACTOR)]
    ELSE [hasEnv |-> FALSE, co2Year |-> Zero, treesYear |-> Zero]

\* the fields calculateFinancials writes into res
calculateFinancials(res, g) ==
    Bind(res, LAMBDA r :
        lcoeFields(r) @@
        [payback |-> calculatePayback(r.cashflows, g.period),
         npv |-> Sub(r.pvRevenue, Add(r.totalCapex, r.pvOpex)),
         roi |-> calculateROI(r.totalRevenue, r.totalOpexNominal,
                              r.totalCapex),
         env |-> envFields(r)] @@ r)

\* withCumulative starting the running sum at 0, not at cashflows[0]
withCumulative_FromZero(yearly, start) ==
    [i \in 1..Len(yearly) |->
        [cumulativeCF |->
            RunningSum(Zero, MapSeq(yearly, LAMBDA d : d.netCF), i)]
        @@ yearly[i]]

\* results.yearlyData after the cumulative pass: record i gets
\* cumulativeCF = cashflows[0] + netCF(1) + ... + netCF(i)
withCumulative(yearly, start) ==
    [i \in 1..Len(yearly) |->
        [cumulativeCF |->
            RunningSum(start, MapSeq(yearly, LAMBDA d : d.netCF), i)]
        @@ yearly[i]]

\* newResults with cashflows[0] = capex, the sign lost
newResults_CapexSign(project) ==
    [yearlyData |-> <<>>, pvEnergy |-> Zero, pvOpex |-> Zero,
     pvRevenue |-> Zero, cashflows |-> <<project.capex>>,
     totalCapex |-> project.capex, totalRevenue |-> Zero,
     totalOpexNominal |-> Zero]

\* results as first built: the object literal of calculateProject
newResults(project) ==
    [yearlyData |-> <<>>, pvEnergy |-> Zero, pvOpex |-> Zero,
     pvRevenue |-> Zero, cashflows |-> <<Neg(project.capex)>>,
     totalCapex |-> project.capex, totalRevenue |-> Zero,
     totalOpexNominal |-> Zero]

\* one pass of the year loop over results, y being the year's values
loopStep(results, y) ==
    [results EXCEPT
        !.pvEnergy = Add(@, Mul(y.energy, y.df)),
        !.pvOpex = Add(@, Mul(y.opex, y.df)),
        !.totalOpexNominal = Add(@, y.opex),
        !.pvRevenue = Add(@, Mul(y.revenue, y.df)),
        !.totalRevenue = Add(@, y.revenue),
        !.cashflows = Append(@, y.netCF),
        !.yearlyData = Append(@,
            [year |-> y.year, energy |-> y.energy, tariff |-> y.tariff,
             revenue |-> y.revenue, opex |-> y.opex, netCF |-> y.netCF,
             pvNetCF |-> y.pvNetCF])]

\* results after the loop has run for t = 1 .. n
RECURSIVE loopUpTo(_, _, _)
loopUpTo(project, g, n) ==
    IF n <= 0 THEN newResults(project)
    ELSE Bind(loopUpTo(project, g, n - 1), LAMBDA results :
            Bind(projectYear(project, g, n), LAMBDA y :
                loopStep(results, y)))

\* what follows the loop: the cumulative pass, then calculateFinancials
afterLoop(results, g) ==
    Bind(results, LAMBDA r :
        calculateFinancials(
            [r EXCEPT !.yearlyData = withCumulative(@, r.cashflows[1])], g))

calculateProject(project, g) ==
    IF ~project.enabled THEN Null
    ELSE afterLoop(loopUpTo(project, g, g.period), g)

\* 0 += f(r) for every r of rs, in order
SumOver(rs, f(_)) == SumFrom(Zero, MapSeq(rs, f))

\* aggCashflows with agg.cashflows[t] = cf in place of +=: the last active
\* result's series
aggCashflows_Assigned(active, g) ==
    [t \in 1..(g.period + 1) |-> active[Len(active)].cashflows[t]]

\* agg.cashflows after the summation: new Array(period + 1).fill(0), then
\* agg.cashflows[t] += cf for every active result
aggCashflows(active, g) ==
    [t \in 1..(g.period + 1) |-> SumOver(active, LAMBDA r : r.cashflows[t])]

\* agg.yearlyData[i] after the summation, before the metrics pass
aggYear(active, i) ==
    [year |-> i,
     energy |-> SumOver(active, LAMBDA r : r.yearlyData[i].energy),
     revenue |-> SumOver(active, LAMBDA r : r.yearlyData[i].revenue),
     opex |-> SumOver(active, LAMBDA r : r.yearlyData[i].opex),
     netCF |-> SumOver(active, LAMBDA r : r.yearlyData[i].netCF),
     cumulativeCF |-> Zero]

\* d.tariff of an aggregated year record
\* d.tariff with the operands of the division swapped
aggTariff_Swapped(d) ==
    IF Gt(d.energy, Zero) /\ Gt(d.revenue, Zero)
    THEN Div(d.energy, d.revenue) ELSE Zero

aggTariff(d) == IF Gt(d.energy, Zero) THEN Div(d.revenue, d.energy) ELSE Zero

\* aggMetricsPass starting cumulative at 0, not at agg.cashflows[0]
aggMetricsPass_FromZero(yearly, cfs) ==
    [i \in 1..Len(yearly) |->
        [tariff |-> aggTariff(yearly[i])] @@
        [yearly[i] EXCEPT
            !.cumulativeCF = RunningSum(Zero, Tail(cfs), i)]]

\* the metrics pass over agg.yearlyData: cumulativeCF from agg.cashflows,
\* tariff from the summed revenue and energy
aggMetricsPass(yearly, cfs) ==
    [i \in 1..Len(yearly) |->
        [tariff |-> aggTariff(yearly[i])] @@
        [yearly[i] EXCEPT
            !.cumulativeCF = RunningSum(cfs[1], Tail(cfs), i)]]

\* agg.totalKwp: the kwp of every project whose enabled flag is set
totalKwpOf(projects) ==
    SumOver(SelectSeq(projects, LAMBDA p : p.enabled), LAMBDA p : p.kwp)

\* agg.projects made of the non-null project results only
attachProjects_ActiveOnly(projResults, projects) ==
    [i \in 1..Len(SelectSeq(projResults, LAMBDA r : r # Null)) |->
        [meta |-> projects[i]] @@
        SelectSeq(projResults, LAMBDA r : r # Null)[i]]

\* agg.projects: every non-null project result with its project as meta
attachProjects(projResults, projects) ==
    [i \in 1..Len(projResults) |->
        IF projResults[i] = Null THEN Null
        ELSE [meta |-> projects[i]] @@ projResults[i]]

\* calculateSupplier from the aggregate defaults on, active being the
\* non-null project results
aggregate(active, projResults, s, g) ==
    [projects |-> attachProjects(projResults, s.projects)] @@
    calculateFinancials(
        [name |-> s.name,
         totalKwp |-> totalKwpOf(s.projects),
         totalCapex |-> SumOver(active, LAMBDA r : r.totalCapex),
         pvEnergy |-> SumOver(active, LAMBDA r : r.pvEnergy),
         pvOpex |-> SumOver(active, LAMBDA r : r.pvOpex),
         pvRevenue |-> SumOver(active, LAMBDA r : r.pvRevenue),
         totalRevenue |-> SumOver(active, LAMBDA r : r.totalRevenue),
         totalOpexNominal |-> SumOver(active, LAMBDA r : r.totalOpexNominal),
         cashflows |-> aggCashflows(active, g),
         yearlyData |->
            aggMetricsPass([i \in 1..g.period |-> aggYear(active, i)],
                           aggCashflows(active, g))],
        g)

\* calculateSupplier once the project results are there
fromProjResults(projResults, s, g) ==
    IF Len(SelectSeq(projResults, LAMBDA r : r # Null)) = 0 THEN Null
    ELSE aggregate(SelectSeq(projResults, LAMBDA r : r # Null),
                   projResults, s, g)

\* calculateSupplier without the test of supplier.enabled
calculateSupplier_IgnoresEnabled(s, g) ==
    fromProjResults(
        MapSeq(s.projects, LAMBDA p : calculateProject(p, g)), s, g)

calculateSupplier(s, g) ==
    IF ~s.enabled THEN Null
    ELSE Bind(MapSeq(s.projects, LAMBDA p : calculateProject(p, g)),
              LAMBDA projResults : fromProjResults(projResults, s, g))

----------------------------------------------------------------------------
(* config.js: the default configuration.                                   *)

\* SolarConfig.global
SolarConfigGlobal ==
    [period |-> 20, wacc |-> R(6), degradation |-> <<1, 2>>,
     tariffEscalation |-> R(2), opexInflation |-> R(2)]

\* createDefaultProjects(count, firstEnabled)
createDefaultProjects(count, firstEnabled) ==
    [i \in 1..count |->
        [id |-> i, name |-> "Project", kwp |-> R(100),
         prodHour |-> <<73, 20>>, capex |-> R(3500000),
         utilityTariff |-> <<9, 2>>, ppaDiscount |-> R(10),
         enabled |-> (i = 1 /\ firstEnabled),
         opex |-> <<[name |-> "O&M", type |-> "per_kwp", unit |-> R(500),
                     freq |-> One]>>]]

\* SolarConfig.suppliers[0]: "Supplier A", enabled, first project enabled
SolarConfigSupplierA ==
    [name |-> "Supplier A", enabled |-> TRUE,
     projects |-> createDefaultProjects(3, TRUE)]

----------------------------------------------------------------------------
(* The inputs the engine is called with.                                   *)

GlobalSet ==
    [period : 1..MaxPeriod,
     wacc : {Zero, R(100)},
     degradation : {Zero, R(50)},
     tariffEscalation : {Zero, R(100)},
     opexInflation : {Zero, R(100)}]

OpexNone == <<>>
OpexMixed ==
    <<[name |-> "O&M", type |-> "per_kwp", unit |-> R(100), freq |-> R(2)],
      [name |-> "Fee", type |-> "flat", unit |-> R(50), freq |-> NaN],
      [name |-> "Var", type |-> "per_kwh", unit |-> <<1, 10>>, freq |-> One]>>

\* a project as the engine reads it (id is set by its place in the supplier)
Project(kwp, capex, utilityTariff, ppaDiscount, opex, enabled) ==
    [id |-> 0, name |-> "Project", kwp |-> kwp, prodHour |-> One,
     capex |-> capex, utilityTariff |-> utilityTariff,
     ppaDiscount |-> ppaDiscount, enabled |-> enabled, opex |-> opex]

\* producing and idle (kwp = 0) projects, with and without capex and opex,
\* with a set and a missing utility tariff, and a disabled one
ProjectSet ==
    {Project(R(2), R(1000), R(2), R(50), OpexNone, TRUE),
     Project(R(2), Zero, R(2), Zero, OpexNone, TRUE),
     Project(R(2), R(1000), NaN, R(50), OpexMixed, TRUE),
     Project(Zero, R(1000), NaN, R(50), OpexMixed, TRUE),
     Project(Zero, Zero, R(2), R(50), OpexNone, TRUE),
     Project(R(2), R(1000), R(2), R(50), OpexNone, FALSE)}

\* the suppliers with n projects, project i carrying id i
SuppliersOf(n) ==
    {[name |-> "Supplier", enabled |-> e,
      projects |-> [i \in 1..n |-> [ps[i] EXCEPT !.id = i]]] :
        e \in BOOLEAN, ps \in [1..n -> ProjectSet]}

SupplierSet == UNION {SuppliersOf(n) : n \in 0..MaxProjects}

EnvFactorSet == {[CO2_FACTOR |-> <<1, 2>>, TREE_FACTOR |-> R(10)]}

\* the series calculatePayback is handed when called alone: cashflows[0]
\* and one entry per year, period being the number of years
SeriesSet ==
    UNION {[1..n -> {R(-100), R(-1), Zero, One, R(50)}] : n \in 1..MaxSeries}

NoCall == [op |-> "none", idx |-> 0, value |-> Null]

\* no application is running: the engine is called on its own
NoApp ==
    /\ thisSuppliers = <<>>
    /\ thisResults = <<>>
    /\ last = [op |-> "none"]
    /\ clip = [pc |-> "none"]
    /\ cards = <<>>

----------------------------------------------------------------------------
(* The engine called on a supplier and the global assumptions.             *)

Init ==
    /\ \/ global \in GlobalSet /\ supplier \in SupplierSet
       \/ global = SolarConfigGlobal /\ supplier = SolarConfigSupplierA
    /\ ENV_FACTORS \in EnvFactorSet
    /\ cashflows = <<>>
    /\ ret = NoCall
    /\ NoApp

\* calculateSupplier were it to write to its argument
CallCalculateSupplier_WritesArgument ==
    /\ ret = NoCall
    /\ global.period <= MaxPeriod
    /\ ret' = [op |-> "calculateSupplier", idx |-> 0,
               value |-> calculateSupplier(supplier, global)]
    /\ supplier' = [supplier EXCEPT !.enabled = FALSE]
    /\ UNCHANGED <<global, ENV_FACTORS, cashflows, appVars>>

\* Calculator.calculateSupplier(supplier, global)
CallCalculateSupplier ==
    /\ ret = NoCall
    /\ global.period <= MaxPeriod
    /\ ret' = [op |-> "calculateSupplier", idx |-> 0,
               value |-> calculateSupplier(supplier, global)]
    /\ UNCHANGED <<global, supplier, ENV_FACTORS, cashflows, appVars>>

\* Calculator.calculateProject(supplier.projects[i], global)
CallCalculateProject(i) ==
    /\ ret = NoCall
    /\ global.period <= MaxPeriod
    /\ ret' = [op |-> "calculateProject", idx |-> i,
               value |-> calculateProject(supplier.projects[i], global)]
    /\ UNCHANGED <<global, supplier, ENV_FACTORS, cashflows, appVars>>

\* calculateProject on an enabled project whose horizon is beyond MaxPeriod,
\* followed through the first pass of its year loop only
FirstPass(i) ==
    /\ ret = NoCall
    /\ global.period > MaxPeriod
    /\ supplier.projects[i].enabled
    /\ ret' = [op |-> "firstPass", idx |-> i,
               value |-> loopUpTo(supplier.projects[i], global, 1)]
    /\ UNCHANGED <<global, supplier, ENV_FACTORS, cashflows, appVars>>

\* the caller takes the returned value; the engine keeps nothing of it
TakeResult ==
    /\ ret # NoCall
    /\ ret' = NoCall
    /\ UNCHANGED <<global, supplier, ENV_FACTORS, cashflows, appVars>>

Next ==
    \/ CallCalculateSupplier
    \/ \E i \in 1..Len(supplier.projects) : CallCalculateProject(i)
    \/ \E i \in 1..Len(supplier.projects) : FirstPass(i)
    \/ TakeResult

Spec == Init /\ [][Next]_vars

----------------------------------------------------------------------------
(* A caller that keeps a supplier result and then edits a project, as      *)
(* updateProject does between its assignment and its recalculation.        *)

\* parseFloat on the texts the inputs are given
parseFloat(text) ==
    CASE text = "0" -> Zero
      [] text = "1" -> One
      [] text = "2" -> R(2)
      [] text = "3" -> R(3)
      [] text = "100" -> R(100)
      [] text = "0.5" -> <<1, 2>>
      [] OTHER -> NaN

\* a result read through its references: { ...r, meta: supplier.projects[i] }
\* copies the fields of r but keeps the project object itself as meta, so
\* that meta reads as the project reads now
readThrough(result, projects) ==
    [result EXCEPT !.projects =
        [i \in DOMAIN result.projects |->
            IF result.projects[i] = Null THEN Null
            ELSE [result.projects[i] EXCEPT !.meta = projects[i]]]]

\* this.suppliers[sIdx].projects[pIdx][key] = parseFloat(val), with the
\* result calculateSupplier returned before still in the caller's hands
CallerUpdatesProject(i, val) ==
    /\ ret.op = "calculateSupplier"
    /\ ret.value # Null
    /\ supplier' = [supplier EXCEPT !.projects[i].kwp = parseFloat(val)]
    /\ ret' = [op |-> "held", idx |-> i,
               value |-> readThrough(ret.value, supplier'.projects)]
    /\ last' = [op |-> "updateProject", returned |-> ret.value]
    /\ UNCHANGED <<global, ENV_FACTORS, cashflows, thisSuppliers,
                   thisResults, clip, cards>>

NextHeld ==
    \/ CallCalculateSupplier
    \/ \E i \in 1..Len(supplier.projects), val \in {"0", "3"} :
            CallerUpdatesProject(i, val)

SpecHeld == Init /\ [][NextHeld]_vars

----------------------------------------------------------------------------
(* calculatePayback called alone on a series of period + 1 entries.        *)

InitPayback ==
    /\ cashflows \in SeriesSet
    /\ global = [SolarConfigGlobal EXCEPT !.period = Len(cashflows) - 1]
    /\ supplier = SolarConfigSupplierA
    /\ ENV_FACTORS \in EnvFactorSet
    /\ ret = NoCall
    /\ NoApp

\* Calculator.calculatePayback(cashflows, global.period)
CallCalculatePayback ==
    /\ ret = NoCall
    /\ ret' = [op |-> "calculatePayback", idx |-> 0,
               value |-> calculatePayback(cashflows, global.period)]
    /\ UNCHANGED <<global, supplier, ENV_FACTORS, cashflows, appVars>>

NextPayback == CallCalculatePayback \/ TakeResult

SpecPayback == InitPayback /\ [][NextPayback]_vars

----------------------------------------------------------------------------
(* calculateIRR, followed one Newton-Raphson pass at a time.               *)

\* Math.abs(x) < 1 / k for a positive integer k, without forming x * k
BelowOneOver(x, k) == AbsInt(x[1]) < (x[2] + k - 1) \div k

IrrFirstGuess == <<1, 10>>
IrrIterations == 100
IrrFlatSlope == 1000000
IrrConverged == 100000

\* npv after the inner loop: the sum of cashflows[t] / (1 + guess)^t
irrNpv(cfs, guess) ==
    SumFrom(Zero,
        [k \in 1..Len(cfs) |-> Div(cfs[k], Pow(Add(One, guess), k - 1))])

\* dnpv after the inner loop: minus the sum of
\* t * cashflows[t] / ((1 + guess)^t * (1 + guess))
irrDnpv(cfs, guess) ==
    SumFrom(Zero,
        [k \in 1..Len(cfs) |->
            Neg(Div(Mul(R(k - 1), cfs[k]),
                    Mul(Pow(Add(One, guess), k - 1), Add(One, guess))))])

\* irrPass returning val itself, not val * 100
irrPass_Fraction(cfs, guess) ==
    LET dnpv == irrDnpv(cfs, guess)
        val == Sub(guess, Div(irrNpv(cfs, guess), dnpv))
    IN  IF ~isFinite(guess) \/ (Add(One, guess) = Zero /\ Len(cfs) > 1)
        THEN [op |-> "irrLoop", value |-> NaN]
        ELSE IF BelowOneOver(dnpv, IrrFlatSlope)
        THEN [op |-> "calculateIRR", value |-> Zero]
        ELSE IF BelowOneOver(Sub(val, guess), IrrConverged)
        THEN [op |-> "calculateIRR", value |-> val]
        ELSE [op |-> "irrLoop", value |-> val]

\* irrPass returning the guess in hand, times 100, on a flat slope
irrPass_FlatReturnsGuess(cfs, guess) ==
    LET dnpv == irrDnpv(cfs, guess)
        val == Sub(guess, Div(irrNpv(cfs, guess), dnpv))
    IN  IF ~isFinite(guess) \/ (Add(One, guess) = Zero /\ Len(cfs) > 1)
        THEN [op |-> "irrLoop", value |-> NaN]
        ELSE IF BelowOneOver(dnpv, IrrFlatSlope)
        THEN [op |-> "calculateIRR", value |-> Mul(guess, R(100))]
        ELSE IF BelowOneOver(Sub(val, guess), IrrConverged)
        THEN [op |-> "calculateIRR", value |-> Mul(val, R(100))]
        ELSE [op |-> "irrLoop", value |-> val]

\* one pass of the outer loop from guess: break (and return 0) on a flat
\* slope, return val * 100 on convergence, go on from val otherwise.  A
\* division by (1 + guess) = 0 makes npv and dnpv infinite or NaN and val
\* NaN, and from a NaN guess every later pass yields NaN again.
irrPass(cfs, guess) ==
    LET dnpv == irrDnpv(cfs, guess)
        val == Sub(guess, Div(irrNpv(cfs, guess), dnpv))
    IN  IF ~isFinite(guess) \/ (Add(One, guess) = Zero /\ Len(cfs) > 1)
        THEN [op |-> "irrLoop", value |-> NaN]
        ELSE IF BelowOneOver(dnpv, IrrFlatSlope)
        THEN [op |-> "calculateIRR", value |-> Zero]
        ELSE IF BelowOneOver(Sub(val, guess), IrrConverged)
        THEN [op |-> "calculateIRR", value |-> Mul(val, R(100))]
        ELSE [op |-> "irrLoop", value |-> val]

\* the series calculateIRR is handed: cashflows[0] and up to two years, and
\* the series whose first pass ends on the guess -1
IrrSeriesSet ==
    UNION {[1..n -> {R(-100), R(-10), Zero, R(11), R(110), R(121)}] :
            n \in 1..3}
    \cup {<<R(-20), R(11)>>}

\* a guess the model follows further: numerator and denominator within
\* MaxGuess
GuessWithin(x) == AbsInt(x[1]) <= MaxGuess /\ x[2] <= MaxGuess

InitIRR ==
    /\ cashflows \in IrrSeriesSet
    /\ global = [SolarConfigGlobal EXCEPT !.period = Len(cashflows) - 1]
    /\ supplier = SolarConfigSupplierA
    /\ ENV_FACTORS \in EnvFactorSet
    /\ ret = NoCall
    /\ NoApp

\* Calculator.calculateIRR(cashflows) entered: let guess = 0.1
EnterIRR ==
    /\ ret = NoCall
    /\ ret' = [op |-> "irrLoop", idx |-> 0, value |-> IrrFirstGuess]
    /\ UNCHANGED <<global, supplier, ENV_FACTORS, cashflows, appVars>>

\* one pass of for (let i = 0; i < 100; i++), idx counting the passes made
PassIRR ==
    /\ ret.op = "irrLoop"
    /\ GuessWithin(ret.value)
    /\ ret' = IF ret.idx >= IrrIterations
              THEN [op |-> "calculateIRR", idx |-> ret.idx, value |-> Zero]
              ELSE [idx |-> ret.idx + 1] @@ irrPass(cashflows, ret.value)
    /\ UNCHANGED <<global, supplier, ENV_FACTORS, cashflows, appVars>>

\* calculateIRR has returned and the caller takes the value
ReturnIRR ==
    /\ ret.op = "calculateIRR"
    /\ ret' = NoCall
    /\ UNCHANGED <<global, supplier, ENV_FACTORS, cashflows, appVars>>

NextIRR == EnterIRR \/ PassIRR \/ ReturnIRR

SpecIRR == InitIRR /\ [][NextIRR]_vars

----------------------------------------------------------------------------
(* calculateMIRR.  Math.pow(x, 1 / n) is worked out where the root is a    *)
(* rational number with numerator and denominator up to MaxRoot; elsewhere *)
(* the returned number is kept as <<x[1], x[2], n>>, which stands for      *)
(* ((x[1] / x[2])^(1/n) - 1) * 100.                                        *)

MaxRoot == 20

RECURSIVE IntPow(_, _)
IntPow(k, n) == IF n = 0 THEN 1 ELSE k * IntPow(k, n - 1)

\* the k in 0..MaxRoot with k^n = a, or -1 when there is none
IntRoot(a, n) ==
    IF \E k \in 0..MaxRoot : IntPow(k, n) = a
    THEN CHOOSE k \in 0..MaxRoot : IntPow(k, n) = a
    ELSE -1

\* (Math.pow(x, 1 / n) - 1) * 100 for x >= 0
mirrValue(x, n) ==
    IF x = Zero THEN R(-100)
    ELSE IF n >= 1 /\ IntRoot(x[1], n) >= 0 /\ IntRoot(x[2], n) >= 0
    THEN Mul(Sub(<<IntRoot(x[1], n), IntRoot(x[2], n)>>, One), R(100))
    ELSE <<x[1], x[2], n>>

\* fvPos after the forEach: cf * Math.pow(1 + r, n - t) of every cf >= 0
mirrFvPos(cfs, r, n) ==
    SumFrom(Zero,
        [k \in 1..Len(cfs) |->
            IF Ge(cfs[k], Zero)
            THEN Mul(cfs[k], Pow(Add(One, r), n - (k - 1)))
            ELSE Zero])

\* mirrPvNeg leaving the negative flows undiscounted
mirrPvNeg_Undiscounted(cfs, r) ==
    SumFrom(Zero,
        [k \in 1..Len(cfs) |->
            IF Ge(cfs[k], Zero) THEN Zero ELSE Abs(cfs[k])])

\* pvNeg after the forEach: Math.abs(cf) / Math.pow(1 + r, t) of every
\* other cf
mirrPvNeg(cfs, r) ==
    SumFrom(Zero,
        [k \in 1..Len(cfs) |->
            IF Ge(cfs[k], Zero) THEN Zero
            ELSE Div(Abs(cfs[k]), Pow(Add(One, r), k - 1))])

calculateMIRR(cfs, g) ==
    IF mirrPvNeg(cfs, Percent(g.wacc)) = Zero THEN Zero
    ELSE mirrValue(Div(mirrFvPos(cfs, Percent(g.wacc), g.period),
                       mirrPvNeg(cfs, Percent(g.wacc))),
                   g.period)

\* the series calculateMIRR is handed by calculateFinancials: cashflows[0]
\* and up to two years, period being the number of years
MirrSeriesSet ==
    UNION {[1..n -> {R(-100), Zero, R(100), R(400)}] : n \in 1..3}

InitMIRR ==
    /\ cashflows \in MirrSeriesSet
    /\ \E wacc \in {Zero, R(100)} :
        global = [period |-> Len(cashflows) - 1, wacc |-> wacc,
                  degradation |-> Zero, tariffEscalation |-> Zero,
                  opexInflation |-> Zero]
    /\ supplier = SolarConfigSupplierA
    /\ ENV_FACTORS \in EnvFactorSet
    /\ ret = NoCall
    /\ NoApp

\* Calculator.calculateMIRR(cashflows, global)
CallCalculateMIRR ==
    /\ ret = NoCall
    /\ ret' = [op |-> "calculateMIRR", idx |-> 0,
               value |-> calculateMIRR(cashflows, global)]
    /\ UNCHANGED <<global, supplier, ENV_FACTORS, cashflows, appVars>>

NextMIRR == CallCalculateMIRR \/ TakeResult

SpecMIRR == InitMIRR /\ [][NextMIRR]_vars

----------------------------------------------------------------------------
(* calculateProject called on its own, on projects with one or two opex    *)
(* items: the supplier in hand has the one project the call is made with.  *)

\* the opex items of the projects: per_kwp items with no freq (NaN), and
\* with the frequencies 0, 1 and 2, a flat item and a per_kwh item
OpexItemSet ==
    {[name |-> "O&M", type |-> "per_kwp", unit |-> R(100), freq |-> f] :
        f \in {NaN, Zero, One, R(2)}}
    \cup {[name |-> "Fee", type |-> "flat", unit |-> R(50), freq |-> NaN],
          [name |-> "Var", type |-> "per_kwh", unit |-> <<1, 10>>,
           freq |-> One]}

OpexListSet == UNION {[1..n -> OpexItemSet] : n \in 0..2}

InitOpex ==
    /\ \E period \in 1..MaxPeriod, inflation \in {Zero, R(100)} :
        global = [period |-> period, wacc |-> Zero, degradation |-> R(50),
                  tariffEscalation |-> Zero, opexInflation |-> inflation]
    /\ \E opex \in OpexListSet :
        supplier =
            [name |-> "Supplier", enabled |-> TRUE,
             projects |-> <<[Project(R(2), R(1000), R(2), R(50), opex, TRUE)
                                EXCEPT !.id = 1]>>]
    /\ ENV_FACTORS \in EnvFactorSet
    /\ cashflows = <<>>
    /\ ret = NoCall
    /\ NoApp

NextOpex ==
    \/ \E i \in 1..Len(supplier.projects) : CallCalculateProject(i)
    \/ TakeResult

SpecOpex == InitOpex /\ [][NextOpex]_vars

----------------------------------------------------------------------------
(* script.js: the SolarCalculator application over the engine.             *)
(* this.global is the variable global; a field that is not there (deleted, *)
(* or never given) is a field outside the record's DOMAIN, or NaN.         *)

\* const legacyTariff = Number.isFinite(this.global.utilityTariff) ? ... : 4.5
legacyTariffOf(g) ==
    IF "utilityTariff" \in DOMAIN g /\ isFinite(g.utilityTariff)
    THEN g.utilityTariff ELSE <<9, 2>>

\* if (!Number.isFinite(project.utilityTariff)) project.utilityTariff = ...
migrateProject(project, legacyTariff) ==
    IF isFinite(project.utilityTariff) THEN project
    ELSE [project EXCEPT !.utilityTariff = legacyTariff]

\* migrateProject overwriting a tariff the project already has
migrateSupplier_Overwrites(s, legacyTariff) ==
    [s EXCEPT !.projects =
        [i \in DOMAIN s.projects |->
            [s.projects[i] EXCEPT !.utilityTariff = legacyTariff]]]

migrateSupplier(s, legacyTariff) ==
    [s EXCEPT !.projects =
        [i \in DOMAIN s.projects |->
            migrateProject(s.projects[i], legacyTariff)]]

\* delete this.global.utilityTariff; delete this.global.ppaDiscount
withoutLegacy(g) ==
    [f \in DOMAIN g \ {"utilityTariff", "ppaDiscount"} |-> g[f]]

\* the first supplier on which supplier.projects.forEach throws (it has no
\* projects), or one past the last supplier
firstBroken(sups) ==
    IF \E k \in 1..Len(sups) : "projects" \notin DOMAIN sups[k]
    THEN CHOOSE k \in 1..Len(sups) :
            /\ "projects" \notin DOMAIN sups[k]
            /\ \A j \in 1..(k - 1) : "projects" \in DOMAIN sups[j]
    ELSE Len(sups) + 1

\* migrateLegacyData on (this.global, this.suppliers): the suppliers before
\* the first broken one are migrated; on a throw the deletes are not reached
migrateLegacyData(g, sups) ==
    [threw |-> firstBroken(sups) <= Len(sups),
     global |-> IF firstBroken(sups) <= Len(sups) THEN g
                ELSE withoutLegacy(g),
     suppliers |->
        [k \in 1..Len(sups) |->
            IF k < firstBroken(sups)
            THEN migrateSupplier(sups[k], legacyTariffOf(g))
            ELSE sups[k]]]

\* this.suppliers.map(s => window.Calculator.calculateSupplier(s, this.global))
calculateResults(sups, g) ==
    [k \in 1..Len(sups) |-> calculateSupplier(sups[k], g)]

\* renderYearTable: the result shown for the selection S<sIdx>-P<pIdx>
\* (indices from 0, as in the option values)
yearTableResult(rs, sIdx, pIdx) ==
    IF rs[sIdx + 1] # Null THEN rs[sIdx + 1].projects[pIdx + 1] ELSE Null

\* every supplier has its projects (the handlers below read them)
wellFormed(sups) == firstBroken(sups) > Len(sups)

\* window.SolarConfig as the application is started with: two suppliers,
\* the first with two projects (the second of them disabled)
AppGlobal ==
    [period |-> 1, wacc |-> Zero, degradation |-> R(50),
     tariffEscalation |-> Zero, opexInflation |-> Zero]

AppProject(id, enabled, utilityTariff) ==
    [id |-> id, name |-> "Project", kwp |-> R(2), prodHour |-> One,
     capex |-> R(1000), utilityTariff |-> utilityTariff,
     ppaDiscount |-> R(50), enabled |-> enabled, opex |-> <<>>]

\* the suppliers, the one project of the second with the given tariff
AppSuppliers(utilityTariff) ==
    <<[name |-> "Supplier A", enabled |-> TRUE,
       projects |-> <<AppProject(1, TRUE, R(2)), AppProject(2, FALSE, R(2))>>],
      [name |-> "Supplier B", enabled |-> TRUE,
       projects |-> <<AppProject(1, TRUE, utilityTariff)>>]>>

\* global of a file saved before the tariff moved to the projects
LegacyGlobal ==
    [utilityTariff |-> R(2), ppaDiscount |-> R(50)] @@ AppGlobal

\* configurations in the current and in the legacy format (with and
\* without a global tariff; a project without a tariff reads NaN)
ConfigSet ==
    {[global |-> AppGlobal, suppliers |-> AppSuppliers(R(2))],
     [global |-> LegacyGlobal, suppliers |-> AppSuppliers(NaN)],
     [global |-> [ppaDiscount |-> R(50)] @@ AppGlobal,
      suppliers |-> AppSuppliers(NaN)]}

\* what importData reads: a text JSON.parse rejects, data without
\* suppliers or without global, a configuration (also with period 0, its
\* suppliers not agreeing on the flag of the first project), and data whose
\* second supplier has no projects
FileSet ==
    {[parses |-> FALSE, data |-> Null],
     [parses |-> TRUE, data |-> [global |-> AppGlobal]],
     [parses |-> TRUE, data |-> [suppliers |-> AppSuppliers(R(2))]],
     [parses |-> TRUE,
      data |-> [global |-> [AppGlobal EXCEPT !.period = 0],
                suppliers |->
                    [AppSuppliers(R(2)) EXCEPT
                        ![2].projects[1].enabled = FALSE]]],
     [parses |-> TRUE,
      data |-> [global |-> LegacyGlobal,
                suppliers |->
                    <<AppSuppliers(NaN)[2],
                      [name |-> "Supplier C", enabled |-> TRUE]>>]]}
    \cup {[parses |-> TRUE, data |-> c] : c \in ConfigSet}

\* the edits the inputs of the project cards are followed through:
\* <<sIdx, pIdx, key, val>>, indices from 0
ProjectEdits == {<<1, 0, "utilityTariff", "">>}

\* the supplier that is renamed: <<idx, val>>
NameEdits == {<<1, "Renamed">>}

\* the project whose opex list is edited: <<sIdx, pIdx>>
OpexEdits == {<<0, 0>>}

\* the rows of that list whose unit is edited
EditedOpexRows == {0}

\* x rounded to a multiple of 1 / k, a half away from zero
roundHalfUp(x, k) ==
    IF ~isFinite(x) THEN NaN
    ELSE IF x[1] < 0
    THEN Norm(-((2 * k * (-x[1]) + x[2]) \div (2 * x[2])), k)
    ELSE Norm((2 * k * x[1] + x[2]) \div (2 * x[2]), k)

\* x.toFixed(2): the number the text shows
toFixed(x) == roundHalfUp(x, 100)

\* x.toLocaleString(): at most three fraction digits
toLocaleString(x) == roundHalfUp(x, 1000)

\* the overview stats of one card from agg: '-' everywhere (Null) without a
\* result; the IRR box is left out as res.irr is
overviewStats(agg) ==
    IF agg = Null THEN Null
    ELSE [totalKwp |-> toLocaleString(agg.totalKwp),
          totalCapex |-> toFixed(Div(agg.totalCapex, R(1000000))),
          lcoe |-> toFixed(agg.lcoe)]

\* renderSuppliers(): one card per supplier, from this.results[sIdx] when
\* this.results is there (rs is Null while this.results is undefined)
renderSuppliers(sups, rs) ==
    [sIdx \in 1..Len(sups) |->
        overviewStats(IF rs = Null THEN Null ELSE rs[sIdx])]

\* the constructor and init(): the cards are rendered before the first
\* calculateAndRender
InitApp ==
    /\ ENV_FACTORS \in EnvFactorSet
    /\ \E config \in ConfigSet :
        /\ global = migrateLegacyData(config.global, config.suppliers).global
        /\ thisSuppliers =
                migrateLegacyData(config.global, config.suppliers).suppliers
        /\ last = [op |-> "init", data |-> config]
    /\ cards = renderSuppliers(thisSuppliers, Null)
    /\ thisResults = calculateResults(thisSuppliers, global)
    /\ supplier = SolarConfigSupplierA
    /\ cashflows = <<>>
    /\ ret = NoCall
    /\ clip = [pc |-> "none"]

\* toggleSupplier without its calculateAndRender
ToggleSupplier_KeepsResults(idx) ==
    /\ wellFormed(thisSuppliers)
    /\ thisSuppliers' =
        [thisSuppliers EXCEPT ![idx + 1].enabled = ~thisSuppliers[idx + 1].enabled]
    /\ last' = [op |-> "edit"]
    /\ cards' = renderSuppliers(thisSuppliers', thisResults)
    /\ UNCHANGED <<global, supplier, ENV_FACTORS, cashflows, ret, clip,
                   thisResults>>

\* updateConfig(key, val)
UpdateConfig(key, val) ==
    /\ wellFormed(thisSuppliers)
    /\ key = "period" => parseFloat(val)[1] \in 0..MaxPeriod
    /\ global' = [global EXCEPT ![key] =
                    IF key = "period" THEN parseFloat(val)[1]
                    ELSE parseFloat(val)]
    /\ thisResults' = calculateResults(thisSuppliers, global')
    /\ last' = [op |-> "edit"]
    /\ UNCHANGED cards
    /\ UNCHANGED <<supplier, ENV_FACTORS, cashflows, ret, thisSuppliers, clip>>

\* toggleSupplier(idx)
ToggleSupplier(idx) ==
    /\ wellFormed(thisSuppliers)
    /\ thisSuppliers' =
        [thisSuppliers EXCEPT ![idx + 1].enabled = ~thisSuppliers[idx + 1].enabled]
    /\ thisResults' = calculateResults(thisSuppliers', global)
    /\ last' = [op |-> "edit"]
    /\ cards' = renderSuppliers(thisSuppliers', thisResults')
    /\ UNCHANGED <<global, supplier, ENV_FACTORS, cashflows, ret, clip>>

\* updateSupplierName(idx, val)
UpdateSupplierName(idx, val) ==
    /\ wellFormed(thisSuppliers)
    /\ thisSuppliers' = [thisSuppliers EXCEPT ![idx + 1].name = val]
    /\ thisResults' = calculateResults(thisSuppliers', global)
    /\ last' = [op |-> "edit"]
    /\ UNCHANGED cards
    /\ UNCHANGED <<global, supplier, ENV_FACTORS, cashflows, ret, clip>>

\* toggleProject with every supplier's flag negated on its own
ToggleProject_EachItsOwn(sIdx, pIdx) ==
    /\ wellFormed(thisSuppliers)
    /\ thisSuppliers' =
        [k \in 1..Len(thisSuppliers) |->
            IF pIdx + 1 \in DOMAIN thisSuppliers[k].projects
            THEN [thisSuppliers[k] EXCEPT !.projects[pIdx + 1].enabled =
                    ~thisSuppliers[k].projects[pIdx + 1].enabled]
            ELSE thisSuppliers[k]]
    /\ thisResults' = calculateResults(thisSuppliers', global)
    /\ last' = [op |-> "edit"]
    /\ cards' = renderSuppliers(thisSuppliers', thisResults')
    /\ UNCHANGED <<global, supplier, ENV_FACTORS, cashflows, ret, clip>>

\* toggleProject(sIdx, pIdx): the flag of project pIdx is set alike in
\* every supplier that has such a project
ToggleProject(sIdx, pIdx) ==
    /\ wellFormed(thisSuppliers)
    /\ thisSuppliers' =
        [k \in 1..Len(thisSuppliers) |->
            IF pIdx + 1 \in DOMAIN thisSuppliers[k].projects
            THEN [thisSuppliers[k] EXCEPT !.projects[pIdx + 1].enabled =
                    ~thisSuppliers[sIdx + 1].projects[pIdx + 1].enabled]
            ELSE thisSuppliers[k]]
    /\ thisResults' = calculateResults(thisSuppliers', global)
    /\ last' = [op |-> "edit"]
    /\ cards' = renderSuppliers(thisSuppliers', thisResults')
    /\ UNCHANGED <<global, supplier, ENV_FACTORS, cashflows, ret, clip>>

\* updateProject(sIdx, pIdx, key, val)
UpdateProject(sIdx, pIdx, key, val) ==
    /\ wellFormed(thisSuppliers)
    /\ thisSuppliers' =
        [thisSuppliers EXCEPT ![sIdx + 1].projects[pIdx + 1][key] =
            IF key # "name" THEN parseFloat(val) ELSE val]
    /\ thisResults' = calculateResults(thisSuppliers', global)
    /\ last' = [op |-> "edit"]
    /\ cards' = IF key \in {"capex", "kwp"}
               THEN renderSuppliers(thisSuppliers', thisResults')
               ELSE cards
    /\ UNCHANGED <<global, supplier, ENV_FACTORS, cashflows, ret, clip>>

\* updateOpex(sIdx, pIdx, oIdx, key, val)
UpdateOpex(sIdx, pIdx, oIdx, key, val) ==
    /\ wellFormed(thisSuppliers)
    /\ thisSuppliers' =
        [thisSuppliers EXCEPT
            ![sIdx + 1].projects[pIdx + 1].opex[oIdx + 1][key] = val]
    /\ thisResults' = calculateResults(thisSuppliers', global)
    /\ last' = [op |-> "edit"]
    /\ UNCHANGED cards
    /\ UNCHANGED <<global, supplier, ENV_FACTORS, cashflows, ret, clip>>

\* addOpexItem(sIdx, pIdx), followed while the list is shorter than MaxOpex
AddOpexItem(sIdx, pIdx) ==
    /\ wellFormed(thisSuppliers)
    /\ Len(thisSuppliers[sIdx + 1].projects[pIdx + 1].opex) < MaxOpex
    /\ thisSuppliers' =
        [thisSuppliers EXCEPT ![sIdx + 1].projects[pIdx + 1].opex =
            Append(@, [name |-> "Cost", type |-> "per_kwp", unit |-> Zero,
                       freq |-> One])]
    /\ thisResults' = calculateResults(thisSuppliers', global)
    /\ last' = [op |-> "edit"]
    /\ UNCHANGED cards
    /\ UNCHANGED <<global, supplier, ENV_FACTORS, cashflows, ret, clip>>

\* the remove button of opex row oIdx: opex.splice(oIdx, 1)
RemoveOpexItem(sIdx, pIdx, oIdx) ==
    /\ wellFormed(thisSuppliers)
    /\ thisSuppliers' =
        [thisSuppliers EXCEPT ![sIdx + 1].projects[pIdx + 1].opex =
            [j \in 1..(Len(@) - 1) |-> IF j <= oIdx THEN @[j] ELSE @[j + 1]]]
    /\ thisResults' = calculateResults(thisSuppliers', global)
    /\ last' = [op |-> "edit"]
    /\ UNCHANGED cards
    /\ UNCHANGED <<global, supplier, ENV_FACTORS, cashflows, ret, clip>>

\* JSON.parse threw, or data.global or data.suppliers is missing
rejected(file) ==
    \/ ~file.parses
    \/ "global" \notin DOMAIN file.data
    \/ "suppliers" \notin DOMAIN file.data

\* reader.onload of importData(input) on the file read, confirmed being the
\* answer to the overwrite question.  "error" is the 'Error importing file'
\* alert, "loaded" the 'Data loaded successfully!' one.
ImportData(file, confirmed) ==
    /\ IF rejected(file)
       THEN /\ last' = [op |-> "importData", outcome |-> "error"]
            /\ UNCHANGED <<global, thisSuppliers, thisResults, cards>>
       ELSE IF ~confirmed
       THEN /\ last' = [op |-> "importData", outcome |-> "declined"]
            /\ UNCHANGED <<global, thisSuppliers, thisResults, cards>>
       ELSE IF migrateLegacyData(file.data.global, file.data.suppliers).threw
       THEN \* this.global and this.suppliers are assigned before the throw
            /\ global' =
                migrateLegacyData(file.data.global, file.data.suppliers).global
            /\ thisSuppliers' =
                migrateLegacyData(file.data.global,
                                  file.data.suppliers).suppliers
            /\ last' = [op |-> "importData", outcome |-> "error"]
            /\ UNCHANGED <<thisResults, cards>>
       ELSE /\ global' =
                migrateLegacyData(file.data.global, file.data.suppliers).global
            /\ thisSuppliers' =
                migrateLegacyData(file.data.global,
                                  file.data.suppliers).suppliers
            /\ thisResults' = calculateResults(thisSuppliers', global')
            /\ cards' = renderSuppliers(thisSuppliers', thisResults')
            /\ last' = [op |-> "importData", outcome |-> "loaded",
                        data |-> file.data]
    /\ UNCHANGED <<supplier, ENV_FACTORS, cashflows, ret, clip>>

\* the suppliers and projects there are, by the indices the handlers take
SupplierIdx == 0..(Len(thisSuppliers) - 1)
ProjectIdxOf(sIdx) ==
    IF wellFormed(thisSuppliers)
    THEN 0..(Len(thisSuppliers[sIdx + 1].projects) - 1) ELSE {}
OpexIdxOf(sIdx, pIdx) ==
    IF wellFormed(thisSuppliers)
    THEN 0..(Len(thisSuppliers[sIdx + 1].projects[pIdx + 1].opex) - 1)
    ELSE {}

NextApp ==
    \/ \E val \in {"0", "1"} : UpdateConfig("period", val)
    \/ \E idx \in SupplierIdx : ToggleSupplier(idx)
    \/ \E e \in NameEdits : UpdateSupplierName(e[1], e[2])
    \/ \E sIdx \in SupplierIdx : \E pIdx \in ProjectIdxOf(sIdx) :
            ToggleProject(sIdx, pIdx)
    \/ \E e \in ProjectEdits : UpdateProject(e[1], e[2], e[3], e[4])
    \/ \E e \in OpexEdits :
            \E oIdx \in OpexIdxOf(e[1], e[2]) \cap EditedOpexRows :
                UpdateOpex(e[1], e[2], oIdx, "unit", parseFloat("100"))
    \/ \E e \in OpexEdits : AddOpexItem(e[1], e[2])
    \/ \E e \in OpexEdits : \E oIdx \in OpexIdxOf(e[1], e[2]) :
            RemoveOpexItem(e[1], e[2], oIdx)
    \/ \E file \in FileSet, confirmed \in BOOLEAN : ImportData(file, confirmed)

SpecApp == InitApp /\ [][NextApp]_vars

----------------------------------------------------------------------------
(* copyChartToClipboard(chartKey, presetSelectorId) of the application: an *)
(* async function, so a call goes on in steps, one at each await.  clip    *)
(* holds this.charts, what the browser offers and the call in hand.        *)

\* the keys of this.charts the call is made with
ChartKeys == {"lcoe", "payback"}

\* this.charts[chartKey]: no chart, a chart without canvas, a chart drawn
ChartSet == {"missing", "noCanvas", "drawn"}

\* the value of the preset selector ("" when nothing is selected)
PresetValues == {"", "ppt", "report", "native"}

AlertUnsupported ==
    "Clipboard API is not supported in this browser. Please use Export PNG instead."
AlertCopied ==
    "Chart copied to clipboard. You can paste into PowerPoint now."
AlertUnable ==
    "Unable to copy chart to clipboard in this environment. Please use Export PNG."

\* document.getElementById(presetSelectorId)?.value || 'ppt'
presetOf(value) == IF value = "" THEN "ppt" ELSE value

\* navigator.clipboard holds only clipboard
clipboardApi_ClipboardOnly(c) == c.clipboard

\* !(!navigator.clipboard || !window.ClipboardItem)
clipboardApi(c) == c.clipboard /\ c.ClipboardItem

\* the catch block: console.error('Copy chart failed:', err), then the alert
caught(c, message) ==
    [c EXCEPT !.pc = "returned",
              !.errors = Append(@, <<"Copy chart failed:", message>>),
              !.alerts = Append(@, AlertUnable)]

InitClip ==
    /\ global = SolarConfigGlobal
    /\ supplier = SolarConfigSupplierA
    /\ ENV_FACTORS \in EnvFactorSet
    /\ cashflows = <<>>
    /\ ret = NoCall
    /\ thisSuppliers = <<>>
    /\ thisResults = <<>>
    /\ last = [op |-> "none"]
    /\ cards = <<>>
    /\ \E charts \in [ChartKeys -> ChartSet], clipboard \in BOOLEAN,
          item \in BOOLEAN :
        clip = [pc |-> "idle", charts |-> charts, clipboard |-> clipboard,
                ClipboardItem |-> item, chartKey |-> "lcoe", preset |-> "ppt",
                exportCanvas |-> "none", written |-> FALSE,
                blob |-> "none", writes |-> <<>>, write |-> "none",
                alerts |-> <<>>, errors |-> <<>>]

\* what a call starts from: nothing built, written or shown yet
called(chartKey, value) ==
    [clip EXCEPT !.chartKey = chartKey, !.preset = presetOf(value),
                 !.exportCanvas = "none", !.written = FALSE,
                 !.blob = "none", !.writes = <<>>, !.write = "none",
                 !.alerts = <<>>, !.errors = <<>>]

\* copyChartToClipboard up to its first await (or its return): builds tells
\* whether buildExportCanvas returns a canvas or throws
CopyChartToClipboard(chartKey, value, builds) ==
    /\ clip.pc \in {"idle", "returned"}
    /\ clip' =
        IF clip.charts[chartKey] # "drawn"
        THEN [called(chartKey, value) EXCEPT !.pc = "returned"]
        ELSE IF ~clipboardApi(clip)
        THEN [called(chartKey, value) EXCEPT
                !.pc = "returned", !.alerts = <<AlertUnsupported>>]
        ELSE IF ~builds
        THEN caught(called(chartKey, value), "buildExportCanvas")
        ELSE [called(chartKey, value) EXCEPT
                !.pc = "toBlob", !.exportCanvas = presetOf(value),
                !.blob = "pending"]
    /\ UNCHANGED <<global, supplier, ENV_FACTORS, cashflows, ret,
                   thisSuppliers, thisResults, last, cards>>

\* exportCanvas.toBlob calls back, with a blob or with null: the function
\* goes on to navigator.clipboard.write([new ClipboardItem(...)]), a list
\* of one item, or throws
ToBlobResolves(blob) ==
    /\ clip.pc = "toBlob"
    /\ clip' = IF blob
               THEN [clip EXCEPT !.pc = "write", !.written = TRUE,
                                 !.blob = "blob", !.write = "pending",
                                 !.writes = Append(@, 1)]
               ELSE caught([clip EXCEPT !.blob = "null"],
                           "Failed to create chart image blob.")
    /\ UNCHANGED <<global, supplier, ENV_FACTORS, cashflows, ret,
                   thisSuppliers, thisResults, last, cards>>

\* the success alert shown whether the write resolved or not
WriteSettles_AlertsAnyway(resolved) ==
    /\ clip.pc = "write"
    /\ clip' = [clip EXCEPT !.pc = "returned",
                            !.write = IF resolved THEN "resolved"
                                      ELSE "rejected",
                            !.alerts = Append(@, AlertCopied)]
    /\ UNCHANGED <<global, supplier, ENV_FACTORS, cashflows, ret,
                   thisSuppliers, thisResults, last, cards>>

\* navigator.clipboard.write resolves or rejects
WriteSettles(resolved) ==
    /\ clip.pc = "write"
    /\ clip' = IF resolved
               THEN [clip EXCEPT !.pc = "returned", !.write = "resolved",
                                 !.alerts = Append(@, AlertCopied)]
               ELSE caught([clip EXCEPT !.write = "rejected"], "write")
    /\ UNCHANGED <<global, supplier, ENV_FACTORS, cashflows, ret,
                   thisSuppliers, thisResults, last, cards>>

NextClip ==
    \/ \E chartKey \in ChartKeys, value \in PresetValues, builds \in BOOLEAN :
            CopyChartToClipboard(chartKey, value, builds)
    \/ \E blob \in BOOLEAN : ToBlobResolves(blob)
    \/ \E resolved \in BOOLEAN : WriteSettles(resolved)

SpecClip == InitClip /\ [][NextClip]_vars

----------------------------------------------------------------------------
(* What the claims speak about.                                            *)

Projects == supplier.projects
ProjectIdx == 1..Len(Projects)
EnabledIdx == {i \in ProjectIdx : Projects[i].enabled}

SupplierReturned == ret.op = "calculateSupplier"
ProjectReturned == ret.op = "calculateProject"
PaybackReturned == ret.op = "calculatePayback"

\* the sum of a sequence of numbers, from the right
RECURSIVE Total(_)
Total(s) == IF s = <<>> THEN Zero ELSE Add(Head(s), Total(Tail(s)))

\* the results of the projects, by place (Null for a disabled one)
ProjectResults == [i \in ProjectIdx |-> calculateProject(Projects[i], global)]

\* the sum over the enabled projects of pick(result)
OverEnabled(results, pick(_)) ==
    Total([i \in ProjectIdx |->
            IF Projects[i].enabled THEN pick(results[i]) ELSE Zero])

\* a has field f, so has b, and the two values are the same
SameField(a, b, f) == f \in DOMAIN a /\ f \in DOMAIN b /\ a[f] = b[f]

SumFields ==
    {"pvEnergy", "pvOpex", "pvRevenue", "totalCapex", "totalRevenue",
     "totalOpexNominal"}
MetricFields ==
    {"lcoeCapex", "lcoeOpex", "lcoe", "avgTariff", "profitMargin", "payback",
     "npv", "roi", "env"}
YearFields ==
    {"year", "energy", "tariff", "revenue", "opex", "netCF", "pvNetCF",
     "cumulativeCF"}

\* a non-null supplier result was returned for a supplier whose only
\* enabled project is project i
OnlyEnabled(i) ==
    /\ SupplierReturned
    /\ ret.value # Null
    /\ EnabledIdx = {i}

\* C1 as stated: with exactly one enabled project the supplier result equals
\* that project's result in the cashflows, in every field of every yearly
\* record, in the PV sums, the totals and the derived metrics, and has no
\* other field besides totalKwp and projects.
C1_AllFieldsIdentical ==
    \A i \in ProjectIdx : OnlyEnabled(i) =>
        \A S \in {ret.value} :
        \A P \in {calculateProject(Projects[i], global)} :
            /\ S.cashflows = P.cashflows
            /\ Len(S.yearlyData) = Len(P.yearlyData)
            /\ \A t \in 1..Len(P.yearlyData) : \A f \in YearFields :
                    SameField(S.yearlyData[t], P.yearlyData[t], f)
            /\ \A f \in SumFields \cup MetricFields : SameField(S, P, f)
            /\ DOMAIN S \ {"totalKwp", "projects"} = DOMAIN P

\* C1 as amended: the supplier result equals the project's in the cashflows,
\* in year, energy, revenue, opex, netCF and cumulativeCF of every yearly
\* record, in the PV sums, the totals and the derived metrics; a year's
\* tariff is the project's revenue / energy of that year (in exact
\* arithmetic the project's tariff) when that energy is positive and 0 when
\* it is not; the supplier's yearly records carry no pvNetCF, and the
\* supplier result carries name besides totalKwp and projects.
C1_IdenticalButTariffAndPv ==
    \A i \in ProjectIdx : OnlyEnabled(i) =>
        \A S \in {ret.value} :
        \A P \in {calculateProject(Projects[i], global)} :
            /\ S.cashflows = P.cashflows
            /\ Len(S.yearlyData) = Len(P.yearlyData)
            /\ \A t \in 1..Len(P.yearlyData) :
                /\ \A f \in YearFields \ {"tariff", "pvNetCF"} :
                        SameField(S.yearlyData[t], P.yearlyData[t], f)
                /\ S.yearlyData[t].tariff =
                        IF Gt(P.yearlyData[t].energy, Zero)
                        THEN Div(P.yearlyData[t].revenue,
                                 P.yearlyData[t].energy)
                        ELSE Zero
                /\ Gt(P.yearlyData[t].energy, Zero) =>
                        S.yearlyData[t].tariff = P.yearlyData[t].tariff
                /\ "pvNetCF" \notin DOMAIN S.yearlyData[t]
            /\ \A f \in SumFields \cup MetricFields : SameField(S, P, f)
            /\ DOMAIN S \ {"totalKwp", "projects", "name"} = DOMAIN P

\* an enabled producing project with capex and opex, two years, next to a
\* disabled project, and the supplier result returned
C1_Witness ==
    /\ OnlyEnabled(1)
    /\ Len(Projects) = 2
    /\ Projects[1].opex # <<>>
    /\ global.period = 2
    /\ Gt(ret.value.yearlyData[2].energy, Zero)
    /\ Gt(ret.value.totalCapex, Zero)

\* C2: calculateSupplier returns null exactly when the supplier is disabled
\* or none of its projects is enabled.
C2_NullIffNothingEnabled ==
    SupplierReturned =>
        ((ret.value = Null) <=> (~supplier.enabled \/ EnabledIdx = {}))

\* an enabled supplier whose two projects are both disabled got null
C2_Witness ==
    /\ SupplierReturned
    /\ supplier.enabled
    /\ Len(Projects) = 2
    /\ EnabledIdx = {}
    /\ ret.value = Null

\* C3: calculateProject returns null exactly for a disabled project; for an
\* enabled one yearlyData has period records numbered 1..period, cashflows
\* has period + 1 entries, cashflows[0] = -capex and cashflows[t] is the
\* netCF of year t, which is revenue(t) - opex(t).
C3_ProjectResultShape ==
    ProjectReturned =>
        LET p == Projects[ret.idx]
            v == ret.value
        IN  /\ (v = Null) <=> ~p.enabled
            /\ p.enabled =>
                /\ Len(v.yearlyData) = global.period
                /\ Len(v.cashflows) = global.period + 1
                /\ v.cashflows[1] = Neg(p.capex)
                /\ \A t \in 1..global.period :
                    /\ v.yearlyData[t].year = t
                    /\ v.cashflows[t + 1] = v.yearlyData[t].netCF
                    /\ v.yearlyData[t].netCF =
                            Sub(v.yearlyData[t].revenue, v.yearlyData[t].opex)

\* a two-year result of an enabled project with capex and opex
C3_Witness ==
    /\ ProjectReturned
    /\ Projects[ret.idx].enabled
    /\ global.period = 2
    /\ Gt(Projects[ret.idx].capex, Zero)
    /\ Gt(ret.value.yearlyData[2].opex, Zero)
    /\ Gt(ret.value.yearlyData[2].revenue, Zero)

\* C4: in a non-null supplier result cashflows has period + 1 entries, each
\* the sum of the enabled projects' entries; each year's energy, revenue,
\* opex and netCF, the PV sums and the totals are the sums of the enabled
\* projects' values; disabled projects add nothing.
C4_AggregateIsSum ==
    (SupplierReturned /\ ret.value # Null) =>
        \A S \in {ret.value} : \A P \in {ProjectResults} :
            /\ Len(S.cashflows) = global.period + 1
            /\ \A t \in 1..(global.period + 1) :
                    S.cashflows[t] = OverEnabled(P, LAMBDA r : r.cashflows[t])
            /\ Len(S.yearlyData) = global.period
            /\ \A t \in 1..global.period :
                    \A f \in {"energy", "revenue", "opex", "netCF"} :
                        S.yearlyData[t][f] =
                            OverEnabled(P, LAMBDA r : r.yearlyData[t][f])
            /\ \A f \in SumFields : S[f] = OverEnabled(P, LAMBDA r : r[f])

\* two enabled projects with different cash flows, aggregated over two years
C4_Witness ==
    /\ SupplierReturned
    /\ ret.value # Null
    /\ EnabledIdx = {1, 2}
    /\ global.period = 2
    /\ ret.value.projects[1].cashflows # ret.value.projects[2].cashflows
    /\ Gt(ret.value.projects[1].yearlyData[2].opex, Zero)
    /\ Gt(ret.value.projects[2].yearlyData[2].revenue, Zero)

\* cumulativeCF of year t is cashflows[0] plus the netCF of years 1..t
CumulativeIsRunningSum(v) ==
    \A t \in 1..Len(v.yearlyData) :
        v.yearlyData[t].cumulativeCF =
            Add(v.cashflows[1],
                Total([k \in 1..t |-> v.yearlyData[k].netCF]))

\* C5: in every non-null project and supplier result the cumulativeCF of
\* year t is cashflows[0] plus the netCF of years 1..t of that result; a
\* supplier's is also the sum of its enabled projects' cumulativeCF.
C5_Cumulative ==
    /\ (ProjectReturned /\ ret.value # Null) =>
            CumulativeIsRunningSum(ret.value)
    /\ (SupplierReturned /\ ret.value # Null) =>
            /\ CumulativeIsRunningSum(ret.value)
            /\ \A P \in {ProjectResults} : \A t \in 1..global.period :
                    ret.value.yearlyData[t].cumulativeCF =
                        OverEnabled(P, LAMBDA r : r.yearlyData[t].cumulativeCF)

\* two enabled projects with capex over two years: the aggregate cumulative
\* of year 2 differs from either project's
C5_Witness ==
    /\ SupplierReturned
    /\ ret.value # Null
    /\ EnabledIdx = {1, 2}
    /\ global.period = 2
    /\ Gt(ret.value.totalCapex, Zero)
    /\ \A i \in {1, 2} :
        /\ ret.value.yearlyData[2].cumulativeCF #
                ret.value.projects[i].yearlyData[2].cumulativeCF
        /\ ret.value.projects[i].yearlyData[2].netCF # Zero

\* the running cumulative after year y of the series handed to
\* calculatePayback: cashflows[0] plus the entries of years 1..y
CumAfter(y) == Add(cashflows[1], Total([k \in 1..y |-> cashflows[k + 1]]))

\* the years of the series after which the running cumulative is not negative
RecoveredYears == {y \in 1..(Len(cashflows) - 1) : Ge(CumAfter(y), Zero)}

\* C6: calculatePayback returns period + 1 when the running cumulative is
\* negative after every year 1..period, and when the series has fewer than
\* two entries.
C6_NeverRecoversSentinel ==
    (PaybackReturned /\ (Len(cashflows) < 2 \/ RecoveredYears = {})) =>
        ret.value = R(global.period + 1)

\* a three-year series that gains every year and still never recovers
C6_Witness ==
    /\ PaybackReturned
    /\ global.period = 3
    /\ Len(cashflows) = 4
    /\ RecoveredYears = {}
    /\ \A y \in 1..3 : Gt(cashflows[y + 1], Zero)
    /\ ret.value = R(4)

\* C7: when the running cumulative first turns non-negative at year y and
\* that year's flow is positive, calculatePayback returns
\* (y - 1) + |cumulative before year y| / cashflows[y]; for
\* [-100, 50, 50, 50] that is exactly 2.
C7_Interpolation ==
    PaybackReturned =>
        /\ \A y \in RecoveredYears :
            ((\A z \in RecoveredYears : y <= z) /\ Gt(cashflows[y + 1], Zero))
                => ret.value = Add(R(y - 1),
                                   Div(Abs(CumAfter(y - 1)), cashflows[y + 1]))
        /\ cashflows = <<R(-100), R(50), R(50), R(50)>> => ret.value = R(2)

\* the series [-100, 50, 50, 50] got 2
C7_Witness ==
    /\ PaybackReturned
    /\ cashflows = <<R(-100), R(50), R(50), R(50)>>
    /\ ret.value = R(2)

\* C8: for an enabled project with capex = 0 and no opex item, under
\* degradation = 0 and tariffEscalation = 0, netCF(t) = revenue(t) in every
\* year, and payback <= 1 whenever the year-1 revenue is positive.
C8_NoCostProject ==
    (/\ ProjectReturned
     /\ Projects[ret.idx].enabled
     /\ Projects[ret.idx].capex = Zero
     /\ Projects[ret.idx].opex = <<>>
     /\ global.degradation = Zero
     /\ global.tariffEscalation = Zero) =>
        /\ \A t \in 1..global.period :
                ret.value.yearlyData[t].netCF = ret.value.yearlyData[t].revenue
        /\ Gt(ret.value.yearlyData[1].revenue, Zero) =>
                Le(ret.value.payback, One)

\* such a project with a positive revenue over two years
C8_Witness ==
    /\ ProjectReturned
    /\ Projects[ret.idx].enabled
    /\ Projects[ret.idx].capex = Zero
    /\ Projects[ret.idx].opex = <<>>
    /\ global.degradation = Zero
    /\ global.tariffEscalation = Zero
    /\ global.period = 2
    /\ Gt(ret.value.yearlyData[2].revenue, Zero)
    /\ Le(ret.value.payback, One)

\* the first pass of the year loop was taken on the default project under
\* the default global assumptions
ScenarioReturned ==
    /\ ret.op = "firstPass"
    /\ global = SolarConfigGlobal
    /\ Projects[ret.idx] = createDefaultProjects(1, TRUE)[1]

----------------------------------------------------------------------------
\* C11: calculateProject and calculateSupplier leave their arguments as they
\* were: over every step in which one of them returns, the supplier (its
\* enabled flag, every project, every opex item) and the global assumptions
\* hold the same values after the call as before it.
C11_ArgumentsUnchanged ==
    [][ret'.op \in {"calculateSupplier", "calculateProject"} =>
            supplier' = supplier /\ global' = global]_vars

\* calculateSupplier has returned an aggregate over two projects, one of
\* them with opex items
C11_Witness ==
    /\ SupplierReturned
    /\ ret.value # Null
    /\ Len(Projects) = 2
    /\ \E i \in ProjectIdx : Projects[i].enabled /\ Projects[i].opex # <<>>

----------------------------------------------------------------------------
\* C14: in every result the engine returns, of a project or of a supplier,
\* when pvEnergy is not positive lcoeCapex, lcoeOpex, lcoe, avgTariff and
\* profitMargin are all 0, and when pvEnergy is positive lcoe is
\* lcoeCapex + lcoeOpex and profitMargin is avgTariff - lcoe.
C14_LcoeFields ==
    (SupplierReturned \/ ProjectReturned) /\ ret.value # Null =>
        \A S \in {ret.value} :
            IF Gt(S.pvEnergy, Zero)
            THEN /\ S.lcoe = Add(S.lcoeCapex, S.lcoeOpex)
                 /\ S.profitMargin = Sub(S.avgTariff, S.lcoe)
            ELSE \A f \in {"lcoeCapex", "lcoeOpex", "lcoe", "avgTariff",
                           "profitMargin"} : S[f] = Zero

\* a supplier result without energy (kwp = 0) but with capex and opex
C14_Witness ==
    /\ SupplierReturned
    /\ ret.value # Null
    /\ ret.value.pvEnergy = Zero
    /\ Gt(ret.value.totalCapex, Zero)
    /\ Gt(ret.value.pvOpex, Zero)

----------------------------------------------------------------------------
\* C15: calculateIRR on the cash flows [-100, 110] returns 10.00 within
\* 0.01, and does so converging from the starting guess of 10%: the return
\* is the one on convergence, within the passes of the loop.
C15_IrrOfTenPercent ==
    cashflows = <<R(-100), R(110)>> =>
        /\ ret.op = "calculateIRR" =>
            /\ Le(Abs(Sub(ret.value, R(10))), <<1, 100>>)
            /\ ret.idx \in 1..IrrIterations
        /\ ret.op = "irrLoop" => ret.value = IrrFirstGuess /\ ret.idx = 0

\* calculateIRR has returned for the cash flows [-100, 110]
C15_Witness ==
    /\ cashflows = <<R(-100), R(110)>>
    /\ ret.op = "calculateIRR"

----------------------------------------------------------------------------
\* C12: a result calculateSupplier returned holds no reference to the
\* supplier's projects: after the caller has edited a project, every field
\* reachable from the result returned before, the metadata of each
\* per-project entry included, reads as it did when the result was returned.
C12_ResultKeepsNoReference ==
    last.op = "updateProject" => ret.value = last.returned

----------------------------------------------------------------------------
(* The application: what the claims speak about.                           *)

\* the handler that ran last went through its calculateAndRender
Recalculated ==
    \/ last.op \in {"init", "edit"}
    \/ last.op = "importData" /\ last.outcome = "loaded"

\* migrateLegacyData has just run to its end, on last.data
Migrated ==
    \/ last.op = "init"
    \/ last.op = "importData" /\ last.outcome = "loaded"

\* the enabled projects of the suppliers that have a result: <<s, p>>
ShownProjects ==
    {sp \in (1..Len(thisSuppliers)) \X (1..2) :
        /\ thisResults[sp[1]] # Null
        /\ sp[2] \in DOMAIN thisSuppliers[sp[1]].projects
        /\ thisSuppliers[sp[1]].projects[sp[2]].enabled}

\* the tariff of year 1 is the utility tariff in use less the PPA discount
YearOneTariffFrom(sp, tariff) ==
    thisResults[sp[1]].projects[sp[2]].yearlyData[1].tariff =
        Mul(tariff,
            Sub(One, Percent(thisSuppliers[sp[1]].projects[sp[2]].ppaDiscount)))


\* C13: the projects list of a SupplierResult has the length and the order
\* of supplier.projects: entry i is null exactly when project i is disabled,
\* and is otherwise the result of calculateProject for project i with that
\* project as meta; so the year table's results[s].projects[p] is the result
\* of project p of supplier s.
C13_ProjectsAligned ==
    Recalculated =>
        \A s \in 1..Len(thisSuppliers) :
            thisResults[s] # Null =>
                /\ Len(thisResults[s].projects) = Len(thisSuppliers[s].projects)
                /\ \A p \in 1..Len(thisSuppliers[s].projects) :
                    /\ yearTableResult(thisResults, s - 1, p - 1) =
                            thisResults[s].projects[p]
                    /\ thisResults[s].projects[p] = Null
                            <=> ~thisSuppliers[s].projects[p].enabled
                    /\ thisSuppliers[s].projects[p].enabled =>
                        thisResults[s].projects[p] =
                            [meta |-> thisSuppliers[s].projects[p]] @@
                            calculateProject(thisSuppliers[s].projects[p],
                                             global)

\* the first project of a supplier is disabled and its second is enabled:
\* the result keeps null in the first place and the second project second
C13_Witness ==
    /\ last.op = "edit"
    /\ Len(thisSuppliers[1].projects) = 2
    /\ ~thisSuppliers[1].projects[1].enabled
    /\ thisSuppliers[1].projects[2].enabled
    /\ thisResults[1] # Null
    /\ thisResults[1].projects[1] = Null
    /\ thisResults[1].projects[2].meta = thisSuppliers[1].projects[2]

\* C16 as stated: calculateProject works with project.utilityTariff when it
\* is finite and with 4.5 otherwise, and after migrateLegacyData every
\* project's utilityTariff is the legacy global.utilityTariff when that is
\* finite and 4.5 otherwise, global having lost utilityTariff and
\* ppaDiscount.
C16_EveryTariffFromLegacy ==
    /\ Recalculated /\ global.period >= 1 =>
        \A sp \in ShownProjects :
            YearOneTariffFrom(sp,
                IF isFinite(thisSuppliers[sp[1]].projects[sp[2]].utilityTariff)
                THEN thisSuppliers[sp[1]].projects[sp[2]].utilityTariff
                ELSE <<9, 2>>)
    /\ Migrated =>
        /\ DOMAIN global \cap {"utilityTariff", "ppaDiscount"} = {}
        /\ \A s \in 1..Len(thisSuppliers) :
           \A p \in 1..Len(thisSuppliers[s].projects) :
                thisSuppliers[s].projects[p].utilityTariff =
                    IF "utilityTariff" \in DOMAIN last.data.global
                       /\ isFinite(last.data.global.utilityTariff)
                    THEN last.data.global.utilityTariff
                    ELSE <<9, 2>>

\* C16 as amended: calculateProject works with project.utilityTariff when
\* it is finite and with 4.5 otherwise; after migrateLegacyData every
\* project's utilityTariff is finite: a project whose own utilityTariff was
\* finite keeps it, and every other project takes the legacy
\* global.utilityTariff when that is finite and 4.5 otherwise; global has
\* lost utilityTariff and ppaDiscount.
C16_TariffFallback ==
    /\ Recalculated /\ global.period >= 1 =>
        \A sp \in ShownProjects :
            YearOneTariffFrom(sp,
                IF isFinite(thisSuppliers[sp[1]].projects[sp[2]].utilityTariff)
                THEN thisSuppliers[sp[1]].projects[sp[2]].utilityTariff
                ELSE <<9, 2>>)
    /\ Migrated =>
        /\ DOMAIN global \cap {"utilityTariff", "ppaDiscount"} = {}
        /\ \A s \in 1..Len(thisSuppliers) :
           \A p \in 1..Len(thisSuppliers[s].projects) :
                /\ isFinite(thisSuppliers[s].projects[p].utilityTariff)
                /\ thisSuppliers[s].projects[p].utilityTariff =
                    IF isFinite(last.data.suppliers[s].projects[p].utilityTariff)
                    THEN last.data.suppliers[s].projects[p].utilityTariff
                    ELSE IF "utilityTariff" \in DOMAIN last.data.global
                            /\ isFinite(last.data.global.utilityTariff)
                    THEN last.data.global.utilityTariff
                    ELSE <<9, 2>>

\* a file without a global tariff has been loaded: the project that had no
\* tariff has 4.5, the others keep theirs, and the results are worked out
C16_Witness ==
    /\ last.op = "importData" /\ last.outcome = "loaded"
    /\ "utilityTariff" \notin DOMAIN last.data.global
    /\ ~isFinite(last.data.suppliers[2].projects[1].utilityTariff)
    /\ thisSuppliers[2].projects[1].utilityTariff = <<9, 2>>
    /\ thisSuppliers[1].projects[1].utilityTariff = R(2)
    /\ <<2, 1>> \in ShownProjects

\* C17: whenever a handler has invoked the calculation engine, after any
\* sequence of updateConfig and importData, global.period is an integer
\* that is at least 1.
C17_PeriodAtLeastOne ==
    Recalculated => global.period \in Nat /\ global.period >= 1

\* C18: an import that ends with the 'Error importing file' alert, or that
\* the user declines, leaves this.global, this.suppliers and this.results
\* exactly as they were before it started.
C18_RejectedImportHasNoEffect ==
    [][(last'.op = "importData" /\ last'.outcome \in {"error", "declined"}) =>
            /\ global' = global
            /\ thisSuppliers' = thisSuppliers
            /\ thisResults' = thisResults]_vars

\* C19: after every handler that has run to its end (init, updateConfig,
\* toggleSupplier, toggleProject, updateProject, updateSupplierName,
\* updateOpex, addOpexItem, the opex removal, a loaded import), in any order,
\* this.results has one entry per supplier, in the suppliers' order, and
\* entry i is calculateSupplier(suppliers[i], global) of the suppliers and
\* global of that moment.
C19_ResultsCurrent ==
    Recalculated =>
        /\ Len(thisResults) = Len(thisSuppliers)
        /\ \A k \in 1..Len(thisSuppliers) :
                thisResults[k] = calculateSupplier(thisSuppliers[k], global)

\* after edits and toggles: the second supplier renamed and disabled, the
\* first with an opex item of 100 per kWp in its one year
C19_Witness ==
    /\ last.op = "edit"
    /\ global.period = 1
    /\ thisSuppliers[2].name = "Renamed"
    /\ ~thisSuppliers[2].enabled
    /\ thisResults[2] = Null
    /\ thisResults[1] # Null
    /\ Len(thisSuppliers[1].projects[1].opex) = 1
    /\ thisSuppliers[1].projects[1].opex[1].unit = R(100)
    /\ Gt(thisResults[1].totalOpexNominal, Zero)


\* C20: when the chart exists but navigator.clipboard or window.ClipboardItem
\* is missing, copyChartToClipboard shows the 'Clipboard API is not
\* supported' alert and no other, and neither builds the export canvas nor
\* attempts a clipboard write; when the chart or its canvas does not exist
\* it returns with no alert at all.
C20_UnsupportedOrNoChart ==
    clip.pc # "idle" =>
        /\ clip.charts[clip.chartKey] = "drawn"
           /\ (~clip.clipboard \/ ~clip.ClipboardItem) =>
                /\ clip.pc = "returned"
                /\ clip.alerts = <<AlertUnsupported>>
                /\ clip.exportCanvas = "none"
                /\ ~clip.written
                /\ clip.errors = <<>>
        /\ clip.charts[clip.chartKey] # "drawn" =>
                /\ clip.pc = "returned"
                /\ clip.alerts = <<>>
                /\ clip.exportCanvas = "none"
                /\ ~clip.written

\* a call on a drawn chart in a browser with navigator.clipboard but
\* without ClipboardItem has returned
C20_Witness ==
    /\ clip.pc = "returned"
    /\ clip.charts[clip.chartKey] = "drawn"
    /\ clip.clipboard /\ ~clip.ClipboardItem
    /\ clip.alerts = <<AlertUnsupported>>

\* the call in hand is one on a drawn chart in a browser that has
\* navigator.clipboard and window.ClipboardItem
CapableCall ==
    /\ clip.pc # "idle"
    /\ clip.charts[clip.chartKey] = "drawn"
    /\ clip.clipboard /\ clip.ClipboardItem

Shown(alert) == \E i \in DOMAIN clip.alerts : clip.alerts[i] = alert

\* C21: on a clipboard-capable browser the 'Chart copied to clipboard'
\* alert is shown only once navigator.clipboard.write, called once with a
\* list of exactly one ClipboardItem, has resolved; when the write rejects
\* or no image blob is produced, the 'Unable to copy chart to clipboard'
\* alert is shown, the failure is logged through console.error with the
\* prefix 'Copy chart failed:', and the success alert is not shown.
C21_AlertReportsTheWrite ==
    CapableCall =>
        /\ Shown(AlertCopied) =>
                /\ clip.write = "resolved"
                /\ clip.writes = <<1>>
                /\ clip.alerts = <<AlertCopied>>
        /\ clip.write = "resolved" => clip.alerts = <<AlertCopied>>
        /\ clip.write = "pending" => clip.alerts = <<>>
        /\ clip.write = "rejected" \/ clip.blob = "null" =>
                /\ clip.pc = "returned"
                /\ clip.alerts = <<AlertUnable>>
                /\ Len(clip.errors) = 1
                /\ clip.errors[1][1] = "Copy chart failed:"
                /\ Len(clip.writes) <= 1

\* the write of a call on a capable browser has been rejected
C21_Witness ==
    /\ CapableCall
    /\ clip.pc = "returned"
    /\ clip.write = "rejected"
    /\ clip.writes = <<1>>
    /\ clip.alerts = <<AlertUnable>>
\* the pass from the guess in hand works out NaN for dnpv (the guess is
\* NaN, or 1 + guess is 0): no comparison with it holds
NotANumber ==
    \/ ~isFinite(ret.value)
    \/ Add(One, ret.value) = Zero /\ Len(cashflows) > 1

\* the pass from the guess in hand finds |dnpv| < 1e-6
FlatSlope == BelowOneOver(irrDnpv(cashflows, ret.value), IrrFlatSlope)

\* the new guess of the pass from the guess in hand
NewGuess ==
    Sub(ret.value,
        Div(irrNpv(cashflows, ret.value), irrDnpv(cashflows, ret.value)))

\* a step of the loop of calculateIRR: it returns 0 when the passes are
\* used up, goes on when dnpv is NaN, returns 0 on a flat slope, and returns otherwise only when the
\* new guess is within 1e-5 of the old one, and then 100 times the new guess
IrrStep ==
    ret.op = "irrLoop" /\ ret' # ret =>
        IF ret.idx >= IrrIterations
        THEN ret'.op = "calculateIRR" /\ ret'.value = Zero
        ELSE IF NotANumber
        THEN ret'.op = "irrLoop" /\ ret'.idx = ret.idx + 1
        ELSE IF FlatSlope
        THEN ret'.op = "calculateIRR" /\ ret'.value = Zero
        ELSE /\ ret'.idx = ret.idx + 1
             /\ IF BelowOneOver(Sub(NewGuess, ret.value), IrrConverged)
                THEN /\ ret'.op = "calculateIRR"
                     /\ ret'.value = Mul(NewGuess, R(100))
                ELSE ret'.op = "irrLoop"

\* C22: calculateIRR makes at most 100 Newton-Raphson passes; it returns 0
\* when a pass finds |dnpv| < 1e-6 (so for a series of zeros and for a
\* series with the year-0 entry only, in the first pass) and when 100
\* passes have gone by without two successive guesses within 1e-5; it
\* returns 100 times the new guess only on convergence.
C22_IrrLoop ==
    /\ [](ret.op \in {"irrLoop", "calculateIRR"} =>
            /\ ret.idx <= IrrIterations
            /\ ret.op = "calculateIRR"
               /\ (Len(cashflows) = 1
                   \/ \A k \in DOMAIN cashflows : cashflows[k] = Zero) =>
                    ret.value = Zero /\ ret.idx = 1)
    /\ [][IrrStep]_vars

\* 100 passes have gone by without convergence: calculateIRR has returned 0
C22_Witness ==
    /\ ret.op = "calculateIRR"
    /\ ret.idx = IrrIterations
    /\ ret.value = Zero
    /\ cashflows = <<R(-20), R(11)>>
\* the base of an opex item in a year with the given energy, freq being
\* replaced by 1 only when the item carries none
StatedBase(item, project, energy) ==
    IF item.type = "per_kwp"
    THEN Mul(Mul(item.unit, project.kwp),
             IF isFinite(item.freq) THEN item.freq ELSE One)
    ELSE IF item.type = "flat" THEN item.unit
    ELSE Mul(item.unit, energy)

\* C23: for every project and every year t, opex(t) is the sum over the
\* opex items of the item's base, multiplied once by
\* (1 + opexInflation/100)^(t-1); the base is unit*kwp*freq for per_kwp,
\* unit for flat and unit*energy(t) for per_kwh, freq being replaced by 1
\* only when the item carries no freq.
C23_OpexOfYear ==
    ret.op = "calculateProject" =>
        \A t \in 1..global.period :
            ret.value.yearlyData[t].opex =
                Mul(SumFrom(Zero,
                        [k \in DOMAIN supplier.projects[1].opex |->
                            StatedBase(supplier.projects[1].opex[k],
                                       supplier.projects[1],
                                       ret.value.yearlyData[t].energy)]),
                    Pow(Add(One, Percent(global.opexInflation)), t - 1))
\* the enabled projects' tariffs of year t are not all the same
TariffsDiffer(PR, t) ==
    \E i, j \in EnabledIdx :
        PR[i].yearlyData[t].tariff # PR[j].yearlyData[t].tariff

\* the simple average of the enabled projects' tariffs of year t
SimpleAverage(PR, t) ==
    Div(OverEnabled(PR, LAMBDA r : r.yearlyData[t].tariff),
        R(Cardinality(EnabledIdx)))

\* the aggregate tariff of year t is revenue / energy of the sums over the
\* enabled projects when that energy is positive, and 0 when it is not
RevenueOverEnergy(S, PR, t) ==
    S.yearlyData[t].tariff =
        IF Gt(OverEnabled(PR, LAMBDA r : r.yearlyData[t].energy), Zero)
        THEN Div(OverEnabled(PR, LAMBDA r : r.yearlyData[t].revenue),
                 OverEnabled(PR, LAMBDA r : r.yearlyData[t].energy))
        ELSE Zero

\* C24 as stated: in a SupplierResult each year's tariff is the aggregate
\* revenue divided by the aggregate energy of that year when that energy is
\* positive, and 0 otherwise; when the projects' tariffs differ it is never
\* the tariff of a single project and never the simple average of the
\* projects' tariffs.
C24_NeverCopyNorAverage ==
    SupplierReturned /\ ret.value # Null =>
        \A S \in {ret.value} : \A PR \in {ProjectResults} :
        \A t \in 1..global.period :
            /\ RevenueOverEnergy(S, PR, t)
            /\ TariffsDiffer(PR, t) =>
                /\ \A i \in EnabledIdx :
                        S.yearlyData[t].tariff # PR[i].yearlyData[t].tariff
                /\ S.yearlyData[t].tariff # SimpleAverage(PR, t)

\* C24 as amended: in a SupplierResult each year's tariff is the aggregate
\* revenue divided by the aggregate energy of that year when that energy is
\* positive, and 0 otherwise: the average of the enabled projects' tariffs
\* weighted by their energy (tariff * sum of energy = sum of energy *
\* project tariff), which is the tariff of a single project or the simple
\* average only where the weights make them coincide.
C24_WeightedTariff ==
    SupplierReturned /\ ret.value # Null =>
        \A S \in {ret.value} : \A PR \in {ProjectResults} :
        \A t \in 1..global.period :
            /\ RevenueOverEnergy(S, PR, t)
            /\ Mul(S.yearlyData[t].tariff,
                   OverEnabled(PR, LAMBDA r : r.yearlyData[t].energy)) =
                    OverEnabled(PR, LAMBDA r :
                        Mul(r.yearlyData[t].energy, r.yearlyData[t].tariff))

\* two enabled projects with different tariffs, one of them producing
\* nothing: the supplier's tariff is the other's, not the simple average
C24_Witness ==
    /\ SupplierReturned /\ ret.value # Null
    /\ Len(Projects) = 2 /\ EnabledIdx = {1, 2}
    /\ TariffsDiffer(ProjectResults, 1)
    /\ Gt(ret.value.yearlyData[1].energy, Zero)
    /\ ret.value.yearlyData[1].tariff # SimpleAverage(ProjectResults, 1)
    /\ ret.value.yearlyData[1].tariff = ProjectResults[1].yearlyData[1].tariff
\* the years (from 0) whose cash flow is below 0
NegativeYears == {t \in 0..(Len(cashflows) - 1) : Lt(cashflows[t + 1], Zero)}

\* the flows >= 0 compounded at wacc to the year period, added up
FutureValue ==
    Total([k \in 1..Len(cashflows) |->
            IF (k - 1) \in NegativeYears THEN Zero
            ELSE Mul(cashflows[k],
                     Pow(Add(One, Percent(global.wacc)),
                         global.period - (k - 1)))])

\* the flows < 0 discounted at wacc to year 0, added up as positive amounts
DiscountedNegatives ==
    Total([k \in 1..Len(cashflows) |->
            IF (k - 1) \in NegativeYears
            THEN Div(Neg(cashflows[k]),
                     Pow(Add(One, Percent(global.wacc)), k - 1))
            ELSE Zero])

\* C25: calculateMIRR takes every cash flow >= 0 (a year-0 flow of 0
\* included) as positive, compounded to the year period at wacc, and every
\* cash flow < 0 as negative, discounted to year 0 at wacc; it returns 0
\* when the series has no negative flow, and otherwise
\* ((sum of future values / sum of discounted negatives)^(1/period) - 1)
\* * 100: the m with (1 + m/100)^period = that quotient and 1 + m/100 >= 0.
C25_Mirr ==
    ret.op = "calculateMIRR" =>
        IF NegativeYears = {} THEN ret.value = Zero
        ELSE \A q \in {Div(FutureValue, DiscountedNegatives)} :
             IF Len(ret.value) = 3
             THEN ret.value = <<q[1], q[2], global.period>>
             ELSE /\ Ge(Add(One, Percent(ret.value)), Zero)
                  /\ q = Zero => ret.value = R(-100)
                  /\ global.period >= 1 =>
                        Pow(Add(One, Percent(ret.value)), global.period) = q

\* -100 in year 0, nothing in year 1 and 400 in year 2 at wacc 100: the
\* quotient is 400 / 100 and calculateMIRR returns (2 - 1) * 100
C25_Witness ==
    /\ ret.op = "calculateMIRR"
    /\ cashflows = <<R(-100), Zero, R(400)>>
    /\ global.wacc = R(100)
    /\ ret.value = R(100)
\* a result, of a project or of a supplier, was returned
ResultReturned ==
    /\ ret.op \in {"calculateProject", "calculateSupplier"}
    /\ ret.value # Null

\* C26: roi of every result is (totalRevenue - totalOpexNominal -
\* totalCapex) / totalCapex * 100 when totalCapex is not 0, and 0 when
\* totalCapex is 0; in the first case the numerator is the sum of the whole
\* cashflows series (indices 0..period).
C26_RoiFromTotals ==
    ResultReturned =>
        \A S \in {ret.value} :
            IF S.totalCapex = Zero THEN S.roi = Zero
            ELSE /\ Len(S.cashflows) = global.period + 1
                 /\ Sub(Sub(S.totalRevenue, S.totalOpexNominal), S.totalCapex)
                        = Total(S.cashflows)
                 /\ S.roi =
                        Mul(Div(Total(S.cashflows), S.totalCapex), R(100))

\* a supplier of two enabled projects with capex, one of them with opex
\* items, over two years: roi is not 0
C26_Witness ==
    /\ SupplierReturned /\ ret.value # Null
    /\ EnabledIdx = {1, 2}
    /\ Projects[1].opex # <<>>
    /\ Projects[2].opex = <<>>
    /\ global.period = 2
    /\ Gt(ret.value.totalCapex, Zero)
    /\ Gt(ret.value.totalOpexNominal, Zero)
    /\ ret.value.roi # Zero
\* the years whose record in the result S has cumulativeCF >= 0
YearsRecovered(S) ==
    {y \in 1..Len(S.yearlyData) : Ge(S.yearlyData[y].cumulativeCF, Zero)}

FirstYear(ys) == CHOOSE y \in ys : \A z \in ys : y <= z

\* C27: for every result computed with capex >= 0, payback is either the
\* sentinel period + 1 or a value in [0, period]; payback <= period holds
\* exactly when some yearly record has cumulativeCF >= 0, and then payback
\* lies in [y - 1, y] for the first such year y.
C27_PaybackRange ==
    ResultReturned /\ Ge(ret.value.totalCapex, Zero) =>
        \A S \in {ret.value} : \A ys \in {YearsRecovered(ret.value)} :
            /\ \/ S.payback = R(global.period + 1)
               \/ Ge(S.payback, Zero) /\ Le(S.payback, R(global.period))
            /\ Le(S.payback, R(global.period)) <=> ys # {}
            /\ ys # {} =>
                /\ Ge(S.payback, R(FirstYear(ys) - 1))
                /\ Le(S.payback, R(FirstYear(ys)))

\* a supplier whose cumulative cash flow turns positive in the course of
\* year 2: payback lies strictly between 1 and 2
C27_Witness ==
    /\ SupplierReturned /\ ret.value # Null
    /\ Gt(ret.value.totalCapex, Zero)
    /\ global.period = 2
    /\ YearsRecovered(ret.value) = {2}
    /\ Gt(ret.value.payback, One)
    /\ Lt(ret.value.payback, R(2))
\* C28: in every ProjectResult, npv, which is pvRevenue - (totalCapex +
\* pvOpex), equals cashflows[0] plus the sum of pvNetCF over all yearly
\* records, in exact arithmetic; and a supplier's npv equals the sum of its
\* enabled projects' npv.
C28_NpvIsDiscountedCashflow ==
    /\ ProjectReturned /\ ret.value # Null =>
        \A P \in {ret.value} :
            /\ P.npv = Sub(P.pvRevenue, Add(P.totalCapex, P.pvOpex))
            /\ P.npv =
                Add(P.cashflows[1],
                    Total([t \in 1..Len(P.yearlyData) |->
                            P.yearlyData[t].pvNetCF]))
    /\ SupplierReturned /\ ret.value # Null =>
        ret.value.npv = OverEnabled(ProjectResults, LAMBDA r : r.npv)

\* a project with capex and opex items over two years at wacc 100: npv is
\* not the undiscounted sum of its cashflows
C28_Witness ==
    /\ ProjectReturned /\ ret.value # Null
    /\ global.period = 2
    /\ global.wacc = R(100)
    /\ Projects[ret.idx].opex # <<>>
    /\ Gt(ret.value.totalCapex, Zero)
    /\ Gt(ret.value.pvRevenue, Zero)
    /\ ret.value.npv # Total(ret.value.cashflows)

\* C29: whenever a handler that changes an input has run to its end (init,
\* updateConfig, updateProject with any key, updateOpex, addOpexItem, the
\* opex removal, toggleSupplier, toggleProject, a loaded import), the
\* overview stats of every supplier card are those of this.results of that
\* moment: no card shows '-' or the values of an earlier calculation while
\* there is a newer result.
C29_CardsShowCurrentResults ==
    Recalculated => cards = renderSuppliers(thisSuppliers, thisResults)

\* the suppliers that have a project at index pIdx
HavingProject(sups, pIdx) ==
    {k \in 1..Len(sups) : pIdx + 1 \in DOMAIN sups[k].projects}

\* sups with the enabled flag at index pIdx of every supplier that has one
\* set to flag
WithFlagAt(sups, pIdx, flag) ==
    [k \in 1..Len(sups) |->
        [sups[k] EXCEPT !.projects =
            [j \in 1..Len(sups[k].projects) |->
                IF j = pIdx + 1
                THEN [sups[k].projects[j] EXCEPT !.enabled = flag]
                ELSE sups[k].projects[j]]]]

\* what a step of toggleProject(sIdx, pIdx) does
ToggleProjectEffect(sIdx, pIdx) ==
    /\ \A k \in HavingProject(thisSuppliers, pIdx) :
            thisSuppliers'[k].projects[pIdx + 1].enabled =
                ~thisSuppliers[sIdx + 1].projects[pIdx + 1].enabled
    /\ \A k, l \in HavingProject(thisSuppliers', pIdx) :
            thisSuppliers'[k].projects[pIdx + 1].enabled =
                thisSuppliers'[l].projects[pIdx + 1].enabled
    /\ \A flag \in {thisSuppliers'[sIdx + 1].projects[pIdx + 1].enabled} :
            WithFlagAt(thisSuppliers, pIdx, flag) = thisSuppliers'
    /\ global' = global
    /\ thisResults' = calculateResults(thisSuppliers', global')
    /\ cards' = renderSuppliers(thisSuppliers', thisResults')

\* C30: toggleProject(sIdx, pIdx) sets projects[pIdx].enabled of every
\* supplier that has a project at index pIdx to the negation of the value
\* supplier sIdx had, so that afterwards all suppliers agree on the flag at
\* index pIdx; no project's flag at another index, no supplier's enabled
\* flag and no other input field changes, and the supplier cards are
\* rendered from the results recomputed on the new suppliers.
C30_ToggleProject ==
    [][\A sIdx \in SupplierIdx : \A pIdx \in ProjectIdxOf(sIdx) :
            ToggleProject(sIdx, pIdx) => ToggleProjectEffect(sIdx, pIdx)]_vars

\* the suppliers did not agree on the first project's flag and it has been
\* toggled from the second supplier, who had it off: both have it on, the
\* second project of the first supplier is off as before, and the cards
\* show the new results
C30_Witness ==
    /\ last.op = "edit"
    /\ global.period = 0
    /\ thisSuppliers[1].projects[1].enabled
    /\ thisSuppliers[2].projects[1].enabled
    /\ ~thisSuppliers[1].projects[2].enabled
    /\ thisSuppliers[1].enabled /\ thisSuppliers[2].enabled
    /\ thisResults[2] # Null
    /\ cards = renderSuppliers(thisSuppliers, thisResults)
    /\ cards[2] # Null
====
